---- MODULE Spec2Model ----
(***************************************************************************)
(* Operational peer connection core of the Matter controller: PeerSet      *)
(* (connect / disconnect / delete / close), its discovery orchestration,   *)
(* the CASE pairing driver and the resubmission reactor.                   *)
(*                                                                         *)
(* The program is single threaded and cooperative: an action of the model  *)
(* is the code that runs between two suspension points (await) of one      *)
(* async function.  Collaborators outside PeerSet (scanner, transport,     *)
(* CASE, store, session and channel manager) answer nondeterministically.  *)
(***************************************************************************)
EXTENDS Integers, Sequences, FiniteSets, TLC

(* ------------------------------ bounds -------------------------------- *)
NumCalls == 2       \* API calls (connect/delete/disconnect/close) in a run
NumAddrs == 1       \* logical peer addresses
NumOpAddrs == 2     \* operational (ip, port) addresses
MaxPolls == 1       \* firings of one reconnection polling timer
MaxAwaiters == 2    \* then() calls on one AsyncConstruction
NumFabrics == 2     \* fabric indexes of logical addresses
NumNodeIds == 2     \* node ids of logical addresses
MaxObjects == 4     \* address objects alive in a run
NumParts == 3       \* parts (endpoints) of the node
NumberSpace == 5    \* stands for 0xffff, the modulus of the endpoint numbers
MaxEvents == 3      \* scanStart and scanStop events noble has yet to emit

Calls == 1..NumCalls
Addrs == 1..NumAddrs
OpAddrs == 1..NumOpAddrs
FabricIndexes == 1..NumFabrics
NodeIds == 1..NumNodeIds
ObjectIds == 1..MaxObjects
Parts == 1..NumParts

(* ------------------- NodeDiscoveryType (enum values) ------------------- *)
DiscNone == 0
RetransmissionDiscovery == 1
TimedDiscovery == 2
FullDiscovery == 3
DiscoveryTypes == {DiscNone, RetransmissionDiscovery, TimedDiscovery, FullDiscovery}
Unset == 4          \* discoveryOptions.discoveryType === undefined

(* ------------------------------ values -------------------------------- *)
NoOp == 0           \* operationalAddress === undefined
NoPeer == 0         \* peersByAddress.get(..) === undefined
Absent == -1        \* the store holds no record
NoOwner == -1       \* no promises / no discovery object
NoCache == 0        \* #nodeCachedData.get(..) === undefined
NoPromise == -1     \* AsyncConstruction: promise === undefined
Initialization == 0 \* AsyncConstruction: the promise the initializer returned
ByReactor == 0      \* owner of a RunningDiscovery set by the reactor
PeerIds == 1..(2 * NumAddrs + NumCalls)

\* the sessions the session manager reports a resubmission for: insecure or
\* secure, of the peer addr or with no fabric and node id
NoAddr == 0
Sessions == [isSecure : BOOLEAN, addr : Addrs \cup {NoAddr}]
NotCalled == [isSecure |-> FALSE, addr |-> -1]

NoCh == [peer |-> 0, to |-> 0]
Channel(a, x) == [peer |-> a, to |-> x]
Seeded == 0         \* "to" of a channel that was not opened by PeerSet

Pending == [kind |-> "pending", ch |-> NoCh, err |-> "none"]
Undefined == [kind |-> "undefined", ch |-> NoCh, err |-> "none"]
Ok(ch) == [kind |-> "ok", ch |-> ch, err |-> "none"]
Err(e) == [kind |-> "err", ch |-> NoCh, err |-> e]

NoEntry == [type |-> DiscNone, owner |-> NoOwner]
NoDevice == [known |-> FALSE, addresses |-> << >>]
Device(s) == [known |-> TRUE, addresses |-> s]

VARIABLES
    peers,            \* #peers: the set of peer objects
    peersByAddress,   \* #peersByAddress: address -> peer object
    peerRec,          \* the fields of each peer object
    seen,             \* per peer: what an observer of PeerSet.added / deleted saw last
    store,            \* PeerStore: address -> persisted operational address
    loaded,           \* the construction's loadPeers has run
    channels,         \* ChannelManager: address -> channel
    sessions,         \* SessionManager: address has a secure session
    resumption,       \* SessionManager: address has a resumption record
    scanCache,        \* scanner: getDiscoveredOperationalDevice
    netInterfaces,    \* #netInterfaces: the addresses UDP interfaces are bound to
    scannerPresent,   \* scannerFor(UDP) !== undefined
    running,          \* #runningPeerDiscoveries
    timerOn,          \* reconnectionPollingTimer.isRunning, per discovery
    pollPromise,      \* the polling producer's promise, per discovery
    polls,            \* firings of each polling timer so far
    call,             \* the API calls: arguments, position, locals, outcome
    mdns,             \* the mDNS producer invoked by each call's anyPromise
    pairSt,           \* the pairing a task is in
    anySt,            \* anyPromise of each call
    retr,             \* the reactor's scan, per address
    handled,          \* the session the reactor is called with in this step
    queueClosed,      \* #interactionQueue closed
    nodeCachedData,   \* #nodeCachedData: address -> cache object
    cacheData,        \* per cache object: it holds data a client has collected
    started,          \* AsyncConstruction: start has been called
    ready,            \* AsyncConstruction: ready
    canceled,         \* AsyncConstruction: canceled
    status,           \* AsyncConstruction: status
    error,            \* AsyncConstruction: error
    promise,          \* AsyncConstruction: promise (which promise it is)
    settled,          \* state of the initializer's promise (0) and of each placeholder
    chained,          \* the placeholder start has chained to the initializer's promise
    awaiters,         \* per then() call: the promise its callbacks were attached to
    cancelHook,       \* AsyncConstruction was given a cancel function
    hookCalls,        \* invocations of the cancel function
    ret,              \* the last method call on the AsyncConstruction and what it threw
    objects,          \* PeerAddress: the address objects created so far
    internedAddresses, \* PeerAddress: fabric index -> (node id -> canonical object)
    canonical,        \* per object: what the last PeerAddress call on it returned
    partNumber,       \* part.number of each part (0: lifecycle.hasNumber is false)
    stores,           \* PartStoreService: ids of the parts in #stores
    storeNumber,      \* number of each part store (0: undefined)
    knownParts,       \* PartStoreService: #knownParts
    allocatedNumbers, \* PartStoreService: #allocatedNumbers
    nextNumber,       \* PartStoreService: #nextNumber
    persistedNextNumber, \* PartStoreService: #persistedNextNumber (0: undefined)
    numbersToPersist, \* PartStoreService: part ids in #numbersToPersist ({}: undefined)
    assign,           \* the last assignNumber call and what it threw
    shouldScan,       \* NobleBleClient: shouldScan
    isScanning,       \* NobleBleClient: isScanning
    nobleState,       \* NobleBleClient: nobleState
    nobleEvents,      \* noble: the scanStart and scanStop events it has yet to emit
    scanWanted,       \* the user called startScanning and not stopScanning since
    nobleCall,        \* the call this step made to noble's scanning
    serial,           \* scheduling: the operations do not overlap in time
    early,            \* scheduling: calls are made without awaiting the construction
    log               \* per task: the calls it made to its collaborators

peerVars == <<peers, peersByAddress, peerRec, seen, store, loaded>>
mgrVars == <<channels, sessions, resumption>>
scanVars == <<scanCache, scannerPresent, netInterfaces>>
discVars == <<running, timerOn, pollPromise, polls>>
taskVars == <<call, mdns, pairSt, anySt>>
cacheVars == <<nodeCachedData, cacheData>>
constructionVars == <<started, ready, canceled, status, error, promise, settled, chained,
                      awaiters, cancelHook, hookCalls, ret>>
internVars == <<objects, internedAddresses, canonical>>
partVars == <<partNumber, stores, storeNumber, knownParts, allocatedNumbers, nextNumber,
              persistedNextNumber, numbersToPersist, assign>>
bleVars == <<shouldScan, isScanning, nobleState, nobleEvents, scanWanted, nobleCall>>
PeerSetVars == <<peerVars, mgrVars, scanVars, discVars, taskVars, retr, handled, queueClosed,
                 cacheVars, serial, early, log>>
vars == <<peers, peersByAddress, peerRec, seen, store, loaded, channels, sessions,
          resumption, scanCache, scannerPresent, netInterfaces, running, timerOn, pollPromise,
          polls, call, mdns, pairSt, anySt, retr, handled, queueClosed,
          nodeCachedData, cacheData, started, ready, canceled, status, error, promise, settled,
          chained, awaiters, cancelHook, hookCalls, ret, objects, internedAddresses,
          canonical, partNumber, stores, storeNumber, knownParts, allocatedNumbers,
          nextNumber, persistedNextNumber, numbersToPersist, assign, shouldScan, isScanning,
          nobleState, nobleEvents, scanWanted, nobleCall, serial, early, log>>

Kinds == {"main", "mdns", "poll"}
Tasks == Calls \X Kinds

(* ------------------------- error taxonomy ------------------------------ *)
\* error instanceof NoResponseTimeoutError: RetransmissionLimitReachedError and
\* PairRetransmissionLimitReachedError derive from NoResponseTimeoutError.
IsNoResponseTimeout(e) ==
    e \in {"NoResponseTimeout", "RetransmissionLimitReached", "PairRetransmissionLimitReached"}

IsDiscoveryError(e) == e = "Discovery"

(* ------------------------------ helpers -------------------------------- *)
Logged(t, s) == [log EXCEPT ![t] = @ \o s]

Count(s, e) == Cardinality({i \in 1..Len(s) : s[i] = e})

IdleCall == [op |-> "idle", pc |-> "idle", addr |-> 1, type |-> FullDiscovery,
             tmo |-> FALSE, opAddr |-> NoOp, runType |-> DiscNone,
             prom |-> NoOwner, poll |-> NoOwner, owner |-> FALSE, actual |-> NoPeer,
             cache |-> NoCache, res |-> Pending]

IdlePair == [st |-> "idle", to |-> NoOp, res |-> Pending, via |-> "none"]

(* --------------------------- #pair: the interface ---------------------- *)
BoundAddresses == {"::", "0.0.0.0"}
NoInterface == "none"       \* interfaceFor(..) === undefined

\* isIPv6(ip): the even operational addresses stand for IPv6 literals, the
\* odd ones for IPv4 literals
IsIPv6(x) == x % 2 = 0

\* a pairing that looks for the IPv4 interface whatever the address
Ipv4Interface(x) == "0.0.0.0"

\* the address of the interface #pair asks for
InterfaceAddress(x) == IF IsIPv6(x) THEN "::" ELSE "0.0.0.0"

\* #netInterfaces.interfaceFor(ChannelType.UDP, address)
InterfaceFor(address) == IF address \in netInterfaces THEN address ELSE NoInterface

\* #pair up to its first await: with the interface it awaits openChannel,
\* without it it has thrown and its caller has not yet been resumed
PairCalled(x) ==
    LET operationalInterface == InterfaceFor(InterfaceAddress(x))
    IN  [st |-> IF operationalInterface = NoInterface THEN "thrown" ELSE "open",
         to |-> x, res |-> Pending, via |-> operationalInterface]

OpenLog(x) == IF InterfaceFor(InterfaceAddress(x)) = NoInterface THEN << >> ELSE <<"open">>
IdleMdns == [st |-> "idle", tmo |-> FALSE, to |-> NoOp]
IdleAny == [n |-> 0, rejected |-> 0, res |-> Pending]

\* a look-up that still finds a peer of the address after the peer was deleted
GetStale(a) ==
    IF peersByAddress[a] # NoPeer THEN peersByAddress[a]
    ELSE IF \E p \in PeerIds : seen[p].ev = "deleted" /\ peerRec[p].address = a
         THEN CHOOSE p \in PeerIds : seen[p].ev = "deleted" /\ peerRec[p].address = a
         ELSE NoPeer

\* PeerSet.get(address)
Get(a) == peersByAddress[a]

\* PeerSet.has(address)
Has(a) == peersByAddress[a] # NoPeer

\* #getLastOperationalAddress
LastOperationalAddress(a) ==
    IF peersByAddress[a] = NoPeer THEN NoOp
    ELSE peerRec[peersByAddress[a]].operationalAddress

\* #knownOperationalAddressFor: the first address the scanner has on record,
\* unless the last known address is among the recorded ones (then none).
KnownOperationalAddressFor(a) ==
    LET d == scanCache[a]
        last == LastOperationalAddress(a)
    IN  IF ~scannerPresent \/ ~d.known THEN NoOp
        ELSE IF last # NoOp /\ \E i \in 1..Len(d.addresses) : d.addresses[i] = last
             THEN NoOp
        ELSE IF Len(d.addresses) = 0 THEN NoOp
        ELSE d.addresses[1]

\* peer objects no variable refers to
FreeIds == {p \in PeerIds : p \notin peers /\ \A c \in Calls : call[c].actual # p}

NthFree(n) == CHOOSE p \in FreeIds : Cardinality({q \in FreeIds : q < p}) = n - 1

FreshPeer == NthFree(1)

\* #peers.added observer: index the peer under its address
AddedObserver(idx, a, p) == [idx EXCEPT ![a] = p]

\* a deleted observer that leaves the index as it is
DeletedObserverKeeps(idx, a) == idx

\* #peers.deleted observer: drop the index entry of the peer's address
DeletedObserver(idx, a) == [idx EXCEPT ![a] = NoPeer]

\* an observer registered by a user of PeerSet.added / PeerSet.deleted runs
\* for peer p: it looks the peer's address up with get and finds `got`
UserObserver(sn, ev, p, got) == [sn EXCEPT ![p] = [ev |-> ev, got |-> got]]

\* an emission that runs the user's observer before the index observer
AddedUserFirst(idx, sn, a, p) ==
    [idx |-> AddedObserver(idx, a, p), seen |-> UserObserver(sn, "added", p, idx[a])]

\* #peers.added emits for peer p of address a: its observers run in the order
\* of their registration, the constructor's index observer first
EmitAdded(idx, sn, a, p) ==
    LET idx1 == AddedObserver(idx, a, p)
    IN  [idx |-> idx1, seen |-> UserObserver(sn, "added", p, idx1[a])]

\* #peers.deleted emits for peer p of address a
EmitDeleted(idx, sn, a, p) ==
    LET idx1 == DeletedObserver(idx, a)
    IN  [idx |-> idx1, seen |-> UserObserver(sn, "deleted", p, idx1[a])]

\* a call that has started and not yet settled
Busy(c) == call[c].pc \notin {"idle", "done"}

\* Scheduling of a step of call c, of its producers or of its timer: calls are
\* made once the construction has loaded the stored peers, unless the caller
\* does not await the construction (no method of PeerSet asserts it); when
\* the operations do not overlap, no other call is under way
Turn(c) ==
    /\ loaded \/ early
    /\ serial => \A d \in Calls \ {c} : ~Busy(d)
    /\ handled' = NotCalled
    /\ UNCHANGED <<serial, early, constructionVars, internVars, partVars, bleVars>>

\* scheduling of a step of the reactor
NoCallBusy ==
    /\ loaded
    /\ serial => \A d \in Calls : ~Busy(d)
    /\ UNCHANGED <<serial, early, constructionVars, internVars, partVars, bleVars>>

Quiet == NoCallBusy /\ handled' = NotCalled

Done(c, r) == [call EXCEPT ![c] = [@ EXCEPT !.pc = "done", !.res = r]]

\* a failed step whose error is caught and dropped: the call goes on to return
FailedSwallowed(c, e) == Done(c, Ok(NoCh))

\* an awaited step of delete or disconnect has failed: the error leaves the call
Failed(c, e) == Done(c, Err(e))

At(c, op, pc) == call[c].op = op /\ call[c].pc = pc

\* cancelOperationalDeviceDiscovery(fabric, nodeId, resolvePromise) for the
\* addresses A: the waiting scans are resolved, or dropped without resolving
CancelMdns(A, resolve) ==
    [c \in Calls |->
        IF mdns[c].st = "scan" /\ call[c].addr \in A
        THEN [mdns[c] EXCEPT !.st = IF resolve THEN "cancelled" ELSE "dead"]
        ELSE mdns[c]]

CancelRetr(A, resolve) ==
    [a \in Addrs |->
        IF retr[a] = "scan" /\ a \in A
        THEN (IF resolve THEN "cancelled" ELSE "dead")
        ELSE retr[a]]

(* --------------------------- AsyncConstruction ------------------------- *)
Promises == 0..MaxAwaiters

\* the variables of AsyncConstruction(target, initializer, cancel) before start
Fresh(hook) ==
    /\ started = FALSE
    /\ ready = FALSE
    /\ canceled = FALSE
    /\ status = "Initializing"
    /\ error = "none"
    /\ promise = NoPromise
    /\ settled = [p \in Promises |-> "none"]
    /\ chained = NoPromise
    /\ awaiters = << >>
    /\ cancelHook = hook
    /\ hookCalls = 0
    /\ ret = [op |-> "new", thrown |-> "none"]

\* AsyncConstruction(target, initializer, cancel) has returned: an initializer
\* it was given has been started (sync: it returned no promise, async: it
\* returned one); `deferred` stands for no initializer
Created(how, hook) ==
    IF how = "deferred" THEN Fresh(hook)
    ELSE /\ started = TRUE
         /\ ready = (how = "sync")
         /\ canceled = FALSE
         /\ status = IF how = "sync" THEN "Active" ELSE "Initializing"
         /\ error = "none"
         /\ promise = IF how = "sync" THEN NoPromise ELSE Initialization
         /\ settled = [p \in Promises |->
                         IF p = Initialization /\ how = "async" THEN "pending" ELSE "none"]
         /\ chained = NoPromise
         /\ awaiters = << >>
         /\ cancelHook = hook
         /\ hookCalls = 0
         /\ ret = [op |-> "new", thrown |-> "none"]

(* ---------------------------- initial state ---------------------------- *)
Devices == {NoDevice} \cup {Device(<<x>>) : x \in OpAddrs}

\* no address object exists and nothing is interned
NoAddresses ==
    /\ objects = << >>
    /\ internedAddresses = << >>
    /\ canonical = [o \in ObjectIds |-> 0]

(* ---------------------------- NobleBleClient --------------------------- *)
\* the adapter states noble reports
NobleStates == {"unknown", "resetting", "unsupported", "unauthorized", "poweredOff", "poweredOn"}

\* the client after its constructor; noble has reported no state yet
NobleCreated ==
    /\ shouldScan = FALSE
    /\ isScanning = FALSE
    /\ nobleState = "unknown"
    /\ nobleEvents = << >>
    /\ scanWanted = FALSE
    /\ nobleCall = "none"

\* the body of startScanning with the adapter in the given state; noble
\* emits scanStart for a scan it was asked to start
StartScanningIn(state) ==
    IF isScanning
    THEN /\ nobleCall' = "none"
         /\ UNCHANGED <<shouldScan, nobleEvents>>
    ELSE /\ shouldScan' = TRUE
         /\ IF state = "poweredOn"
            THEN /\ nobleEvents' = Append(nobleEvents, "scanStart")
                 /\ nobleCall' = "start"
            ELSE /\ nobleCall' = "none"
                 /\ UNCHANGED nobleEvents

\* the body of stopScanning; noble emits scanStop
StopScanningNow ==
    /\ shouldScan' = FALSE
    /\ nobleEvents' = Append(nobleEvents, "scanStop")
    /\ nobleCall' = "stop"

\* the user calls startScanning()
StartScanning ==
    /\ Len(nobleEvents) < MaxEvents
    /\ scanWanted' = TRUE
    /\ StartScanningIn(nobleState)
    /\ UNCHANGED <<isScanning, nobleState, PeerSetVars, constructionVars, internVars, partVars>>

\* the user calls stopScanning()
StopScanning ==
    /\ Len(nobleEvents) < MaxEvents
    /\ scanWanted' = FALSE
    /\ StopScanningNow
    /\ UNCHANGED <<isScanning, nobleState, PeerSetVars, constructionVars, internVars, partVars>>

\* noble emits stateChange: the adapter is now in the given state
StateChange(state) ==
    /\ state # nobleState
    /\ Len(nobleEvents) < MaxEvents
    /\ nobleState' = state
    /\ IF state = "poweredOn"
       THEN IF shouldScan
            THEN StartScanningIn(state)
            ELSE /\ nobleCall' = "none"
                 /\ UNCHANGED <<shouldScan, nobleEvents>>
       ELSE StopScanningNow
    /\ UNCHANGED <<isScanning, scanWanted, PeerSetVars, constructionVars, internVars, partVars>>

\* noble emits scanStart or scanStop
ScanEvent ==
    /\ nobleEvents # << >>
    /\ isScanning' = (Head(nobleEvents) = "scanStart")
    /\ nobleEvents' = Tail(nobleEvents)
    /\ nobleCall' = "none"
    /\ UNCHANGED <<shouldScan, nobleState, scanWanted, PeerSetVars, constructionVars,
                   internVars, partVars>>

\* a PartStoreService that is not under construction
NoPartStores ==
    /\ partNumber = [p \in Parts |-> 0]
    /\ stores = {}
    /\ storeNumber = [p \in Parts |-> 0]
    /\ knownParts = {}
    /\ allocatedNumbers = {}
    /\ nextNumber = 0
    /\ persistedNextNumber = 0
    /\ numbersToPersist = {}
    /\ assign = [part |-> 0, thrown |-> "none"]

\* bare: the addresses the session manager holds a session of without the
\* channel manager holding a channel (a session the peer has established, or
\* one whose channels a client's reconnect has removed)
InitSeeded(bare) ==
    /\ NobleCreated
    /\ store \in [Addrs -> {Absent} \cup OpAddrs]
    /\ peers = {}
    /\ peersByAddress = [a \in Addrs |-> NoPeer]
    /\ peerRec = [p \in PeerIds |-> [address |-> 1, operationalAddress |-> NoOp]]
    /\ seen = [p \in PeerIds |-> [ev |-> "none", got |-> NoPeer]]
    /\ loaded = FALSE
    /\ \E seeded \in SUBSET Addrs :
          /\ channels = [a \in Addrs |-> IF a \in seeded THEN Channel(a, Seeded) ELSE NoCh]
          /\ sessions = [a \in Addrs |-> a \in seeded \/ a \in bare]
    /\ resumption = [a \in Addrs |-> store[a] # Absent]
    /\ scanCache \in [Addrs -> Devices]
    /\ scannerPresent \in BOOLEAN
    /\ netInterfaces \in SUBSET BoundAddresses
    /\ running = [a \in Addrs |-> NoEntry]
    /\ timerOn = [c \in Calls |-> FALSE]
    /\ pollPromise = [c \in Calls |-> Undefined]
    /\ polls = [c \in Calls |-> 0]
    /\ call = [c \in Calls |-> IdleCall]
    /\ mdns = [c \in Calls |-> IdleMdns]
    /\ pairSt = [t \in Tasks |-> IdlePair]
    /\ anySt = [c \in Calls |-> IdleAny]
    /\ retr = [a \in Addrs |-> "idle"]
    /\ handled = NotCalled
    /\ queueClosed = FALSE
    /\ nodeCachedData = [a \in Addrs |-> NoCache]
    /\ cacheData = [o \in Calls |-> FALSE]
    /\ log = [t \in Tasks |-> << >>]
    /\ Created("deferred", FALSE)
    /\ NoAddresses
    /\ NoPartStores

\* both UDP interfaces are bound, no session without a channel
Init0 == InitSeeded({}) /\ netInterfaces = BoundAddresses


(* ------------------- construction: load the stored peers --------------- *)
LoadPeers ==
    /\ ~loaded
    /\ UNCHANGED <<serial, early, constructionVars, internVars, partVars, bleVars>>
    /\ loaded' = TRUE
    /\ LET S == {a \in Addrs : store[a] # Absent}
           obj(a) == NthFree(Cardinality({b \in S : b <= a}))
       IN  /\ peers' = peers \cup {obj(a) : a \in S}
           /\ peersByAddress' =
                 [a \in Addrs |->
                    IF a \in S THEN EmitAdded(peersByAddress, seen, a, obj(a)).idx[a]
                    ELSE peersByAddress[a]]
           /\ seen' =
                 [p \in PeerIds |->
                    IF \E a \in S : obj(a) = p
                    THEN LET a == CHOOSE b \in S : obj(b) = p
                         IN EmitAdded(peersByAddress, seen, a, p).seen[p]
                    ELSE seen[p]]
           /\ peerRec' =
                 [p \in PeerIds |->
                    IF \E a \in S : obj(a) = p
                    THEN LET a == CHOOSE b \in S : obj(b) = p
                         IN [address |-> a, operationalAddress |-> store[a]]
                    ELSE peerRec[p]]
    /\ UNCHANGED <<store, mgrVars, scanVars, discVars, taskVars, retr, handled, queueClosed,
                   cacheVars, log>>

(* ------------------------------ disconnect ----------------------------- *)
\* PeerSet.disconnect up to its first await: the address it will act on
DisconnectAddress(idx, a) == IF idx[a] = NoPeer THEN NoPeer ELSE a

StartDisconnect(c, a) ==
    /\ Turn(c)
    /\ call[c].pc = "idle"
    /\ IF DisconnectAddress(peersByAddress, a) = NoPeer
       THEN /\ call' = [call EXCEPT ![c] = [@ EXCEPT !.op = "disconnect", !.addr = a,
                                                   !.pc = "done", !.res = Ok(NoCh)]]
            /\ log' = log
       ELSE /\ call' = [call EXCEPT ![c] = [@ EXCEPT !.op = "disconnect", !.addr = a,
                                                   !.pc = "disc_sess"]]
            /\ log' = Logged(<<c, "main">>, <<"sessRemove">>)
    /\ UNCHANGED <<peerVars, mgrVars, scanVars, discVars, mdns, pairSt, anySt, retr, queueClosed, cacheVars>>

\* removeAllSessionsForNode(address, true) has settled
DiscSessDone(c) ==
    /\ Turn(c)
    /\ call[c].pc = "disc_sess"
    /\ \E ok \in BOOLEAN :
         IF ok
         THEN /\ sessions' = [sessions EXCEPT ![call[c].addr] = FALSE]
              /\ call' = [call EXCEPT ![c] = [@ EXCEPT !.pc = "disc_chan"]]
              /\ log' = Logged(<<c, "main">>, <<"chanRemove">>)
         ELSE /\ call' = Failed(c, "Other")
              /\ UNCHANGED <<sessions, log>>
    /\ UNCHANGED <<peerVars, channels, resumption, scanVars, discVars, mdns, pairSt, anySt,
                   retr, queueClosed, cacheVars>>

\* removeAllNodeChannels(address) has settled; delete goes on to the resumption record
DiscChanDone(c) ==
    /\ Turn(c)
    /\ call[c].pc = "disc_chan"
    /\ \E ok \in BOOLEAN :
         IF ok
         THEN /\ channels' = [channels EXCEPT ![call[c].addr] = NoCh]
              /\ IF call[c].op = "delete"
                 THEN /\ call' = [call EXCEPT ![c] = [@ EXCEPT !.pc = "del_resump"]]
                      /\ log' = Logged(<<c, "main">>, <<"resumptionDelete">>)
                 ELSE /\ call' = Done(c, Ok(NoCh))
                      /\ log' = log
         ELSE /\ call' = Failed(c, "Other")
              /\ UNCHANGED <<channels, log>>
    /\ UNCHANGED <<peerVars, sessions, resumption, scanVars, discVars, mdns, pairSt, anySt,
                   retr, queueClosed, cacheVars>>

(* -------------------------------- delete ------------------------------- *)
StartDelete(c, a) ==
    /\ Turn(c)
    /\ call[c].pc = "idle"
    /\ LET actual == Get(a) IN
       IF actual = NoPeer
       THEN /\ call' = [call EXCEPT ![c] = [@ EXCEPT !.op = "delete", !.addr = a,
                                                   !.pc = "done", !.res = Ok(NoCh)]]
            /\ UNCHANGED <<peers, peersByAddress, seen, log>>
       ELSE /\ peers' = peers \ {actual}
            /\ LET e == EmitDeleted(peersByAddress, seen, peerRec[actual].address, actual)
               IN  peersByAddress' = e.idx /\ seen' = e.seen
            /\ call' = [call EXCEPT ![c] = [@ EXCEPT !.op = "delete", !.addr = a,
                                                   !.pc = "del_store", !.actual = actual]]
            /\ log' = Logged(<<c, "main">>, <<"setRemove", "storeDelete">>)
    /\ UNCHANGED <<peerRec, store, loaded, mgrVars, scanVars, discVars, mdns, pairSt, anySt,
                   retr, queueClosed, cacheVars>>

\* store.deletePeer has settled; then `await this.disconnect(actual)` runs up
\* to its first await (or returns at once), then deleteResumptionRecord
DeleteStoreDone(c) ==
    /\ Turn(c)
    /\ call[c].pc = "del_store"
    /\ \E ok \in BOOLEAN :
         IF ok
         THEN /\ store' = [store EXCEPT ![call[c].addr] = Absent]
              /\ IF DisconnectAddress(peersByAddress, peerRec[call[c].actual].address) = NoPeer
                 THEN /\ call' = [call EXCEPT ![c] = [@ EXCEPT !.pc = "del_resump"]]
                      /\ log' = Logged(<<c, "main">>, <<"disconnect", "resumptionDelete">>)
                 ELSE /\ call' = [call EXCEPT ![c] = [@ EXCEPT !.pc = "disc_sess"]]
                      /\ log' = Logged(<<c, "main">>, <<"disconnect", "sessRemove">>)
         ELSE /\ call' = Failed(c, "Other")
              /\ UNCHANGED <<store, log>>
    /\ UNCHANGED <<peers, peersByAddress, peerRec, seen, loaded, mgrVars, scanVars, discVars,
                   mdns, pairSt, anySt, retr, queueClosed, cacheVars>>

\* deleteResumptionRecord has settled
DeleteResumpDone(c) ==
    /\ Turn(c)
    /\ call[c].pc = "del_resump"
    /\ \E ok \in BOOLEAN :
         IF ok
         THEN /\ resumption' = [resumption EXCEPT ![call[c].addr] = FALSE]
              /\ call' = Done(c, Ok(NoCh))
         ELSE /\ call' = Failed(c, "Other")
              /\ UNCHANGED resumption
    /\ UNCHANGED <<peerVars, channels, sessions, scanVars, discVars, mdns, pairSt, anySt,
                   retr, queueClosed, cacheVars, log>>

(* -------------------------------- close -------------------------------- *)
\* close without its bookkeeping as a call: the timer of every entry of
\* #runningPeerDiscoveries is stopped, the scanner is told to end the
\* discovery of each entry's address without resolving, the queue is closed
ClosePeerSet ==
    LET R == {a \in Addrs : running[a] # NoEntry} IN
    /\ timerOn' = [o \in Calls |-> IF \E a \in R : running[a].owner = o THEN FALSE
                                   ELSE timerOn[o]]
    /\ mdns' = IF scannerPresent THEN CancelMdns(R, FALSE) ELSE mdns
    /\ retr' = IF scannerPresent THEN CancelRetr(R, FALSE) ELSE retr
    /\ queueClosed' = TRUE

StartClose(c) ==
    /\ Turn(c)
    /\ call[c].pc = "idle"
    /\ ClosePeerSet
    /\ LET R == {a \in Addrs : running[a] # NoEntry} IN
       log' = Logged(<<c, "main">>, [i \in 1..(IF scannerPresent THEN Cardinality(R) ELSE 0) |-> "cancelScan"])
    /\ call' = [call EXCEPT ![c] = [@ EXCEPT !.op = "close", !.pc = "done", !.res = Ok(NoCh)]]
    /\ UNCHANGED <<peerVars, mgrVars, scanVars, running, pollPromise, polls, pairSt, anySt,
                   cacheVars>>

\* close, called once while connect calls are under way
Close ==
    /\ loaded
    /\ ~serial
    /\ ~queueClosed
    /\ ClosePeerSet
    /\ UNCHANGED <<peerVars, mgrVars, scanVars, running, pollPromise, polls, call, pairSt,
                   anySt, handled, cacheVars, constructionVars, internVars, partVars,
                   bleVars, serial, early, log>>

(* ------------------------------ anyPromise ----------------------------- *)
\* a producer of the combinator fulfils: the first value wins
AnyResolve(st, r) == IF st.res.kind = "pending" THEN [st EXCEPT !.res = r] ELSE st

\* a producer of the combinator rejects: the combinator rejects once all have
AnyReject(st, e) ==
    [st EXCEPT !.rejected = @ + 1,
               !.res = IF st.res.kind = "pending" /\ st.rejected + 1 = st.n
                       THEN Err(e) ELSE st.res]

AnySettle(st, r) ==
    IF r.kind = "ok" THEN AnyResolve(st, r)
    ELSE IF r.kind = "err" THEN AnyReject(st, r.err)
    ELSE st

\* the polling promise of discovery o settles with r: every anyPromise that
\* holds it is told
PollSettled(o, r) ==
    [c \in Calls |-> IF call[c].pc = "any" /\ call[c].poll = o THEN AnySettle(anySt[c], r)
                     ELSE anySt[c]]

(* ------------------------- #connectOrDiscoverNode ---------------------- *)
\* discoveryType defaults to FullDiscovery
RequestedDiscoveryType(dt) == IF dt = Unset THEN FullDiscovery ELSE dt

\* the option checks without the one for RetransmissionDiscovery
OptionErrorTimeoutOnly(dt, tmo) == tmo /\ RequestedDiscoveryType(dt) # TimedDiscovery

\* the option checks at the head of #connectOrDiscoverNode
OptionError(dt, tmo) ==
    (tmo /\ RequestedDiscoveryType(dt) # TimedDiscovery)
    \/ RequestedDiscoveryType(dt) = RetransmissionDiscovery

\* the comparison off by one: a discovery of the same mode is cancelled too
CancelsExistingOrEqual(existing, req) == existing.type # DiscNone /\ existing.type <= req

\* "If we currently run another lower retransmission type we cancel it"
CancelsExisting(existing, req) == existing.type # DiscNone /\ existing.type < req

\* the promises the call takes from the existing discovery details: the
\* object keeps them when its type is reset
ExistingPromises(existing) == IF existing.owner \in Calls THEN existing.owner ELSE NoOwner

\* the direct reconnect to the operational address handed in is tried
TriesDirect(opAddr, runType, req) ==
    opAddr # NoOp /\ (runType = DiscNone \/ req = DiscNone)

\* a polling timer is created for the new discovery
StartsPolling(opAddr, req) == opAddr # NoOp /\ req = FullDiscovery

\* a catch that throws the error on and leaves the sessions as they are
ResumeRethrows(c, cl, e, log0) ==
    /\ call' = [call EXCEPT ![c] = [cl EXCEPT !.pc = "done", !.res = Err(e)]]
    /\ log' = log0

\* #resume's catch: sessions of a known peer are removed on a discovery or
\* no-response error, then the error is thrown on
ResumeCatch(c, cl, e, log0) ==
    IF (IsDiscoveryError(e) \/ IsNoResponseTimeout(e)) /\ Has(cl.addr)
    THEN /\ call' = [call EXCEPT ![c] = [cl EXCEPT !.pc = "resume_fail", !.res = Err(e)]]
         /\ log' = [log0 EXCEPT ![<<c, "main">>] = @ \o <<"sessRemove">>]
    ELSE /\ call' = [call EXCEPT ![c] = [cl EXCEPT !.pc = "done", !.res = Err(e)]]
         /\ log' = log0

\* #connectOrDiscoverNode from `if (promises !== undefined)` to the await of
\* anyPromise; cl holds the call's locals, run0/mdns0/log0 the state so far
Discover(c, cl, run0, mdns0, log0) ==
    LET req == cl.type IN
    IF cl.prom # NoOwner
    THEN IF cl.runType > req
         THEN /\ ResumeCatch(c, cl, "Discovery", log0)
              /\ running' = run0
              /\ mdns' = mdns0
              /\ UNCHANGED <<timerOn, pollPromise, anySt>>
         ELSE LET o == cl.prom
                  hasPoll == pollPromise[o].kind # "undefined"
                  st0 == [n |-> IF hasPoll THEN 2 ELSE 1, rejected |-> 0, res |-> Pending]
              IN  /\ call' = [call EXCEPT ![c] =
                                [cl EXCEPT !.pc = "any", !.owner = FALSE,
                                           !.poll = IF hasPoll THEN o ELSE NoOwner]]
                  /\ anySt' = [anySt EXCEPT ![c] =
                                 IF hasPoll THEN AnySettle(st0, pollPromise[o]) ELSE st0]
                  /\ mdns' = [mdns0 EXCEPT ![c] = [st |-> "scan", tmo |-> call[o].tmo, to |-> NoOp]]
                  /\ log' = [log0 EXCEPT ![<<c, "main">>] = @ \o <<"scan">>]
                  /\ running' = run0
                  /\ UNCHANGED <<timerOn, pollPromise>>
    ELSE LET hasPoll == StartsPolling(cl.opAddr, req) IN
         /\ timerOn' = [timerOn EXCEPT ![c] = hasPoll]
         /\ pollPromise' = [pollPromise EXCEPT ![c] = IF hasPoll THEN Pending ELSE Undefined]
         /\ running' = [run0 EXCEPT ![cl.addr] = [type |-> req, owner |-> c]]
         /\ call' = [call EXCEPT ![c] =
                       [cl EXCEPT !.pc = "any", !.owner = TRUE,
                                  !.poll = IF hasPoll THEN c ELSE NoOwner]]
         /\ anySt' = [anySt EXCEPT ![c] =
                        [n |-> IF hasPoll THEN 2 ELSE 1, rejected |-> 0, res |-> Pending]]
         /\ mdns' = [mdns0 EXCEPT ![c] = [st |-> "scan", tmo |-> cl.tmo, to |-> NoOp]]
         /\ log' = [log0 EXCEPT ![<<c, "main">>] = @ \o <<"register", "scan">>]

(* -------------------------------- connect ------------------------------ *)
\* a lookup that never finds a channel
GetChannelMisses(a) == NoCh

\* channels.getChannel(address); NoCh stands for its NoChannelError
GetChannel(a) == channels[a]

\* connect's cachedData for address a: the object #nodeCachedData holds, else
\* a new one (named after the call that creates it)
CachedData(c, a) == IF nodeCachedData[a] # NoCache THEN nodeCachedData[a] ELSE c

\* connect has its channel: the cache object is looked up or created, put
\* into #nodeCachedData and handed to the InteractionClient it returns
Connected(c, cl, ch) ==
    /\ call' = [call EXCEPT ![c] = [cl EXCEPT !.pc = "done", !.res = Ok(ch),
                                               !.cache = CachedData(c, cl.addr)]]
    /\ nodeCachedData' = [nodeCachedData EXCEPT ![cl.addr] = CachedData(c, cl.addr)]
    /\ UNCHANGED cacheData

\* connect: the channel manager's channel, else #resume up to its first await
StartConnect(c, a, dt, tmo) ==
    /\ Turn(c)
    /\ call[c].pc = "idle"
    /\ LET req == RequestedDiscoveryType(dt)
           cl0 == [call[c] EXCEPT !.op = "connect", !.addr = a, !.type = req, !.tmo = tmo]
       IN
       IF GetChannel(a) # NoCh
       THEN /\ Connected(c, cl0, GetChannel(a))
            /\ UNCHANGED <<discVars, mdns, pairSt, anySt, retr, log>>
       ELSE IF OptionError(dt, tmo) \/ ~scannerPresent
       THEN /\ ResumeCatch(c, cl0, "Implementation", log)
            /\ UNCHANGED <<discVars, mdns, pairSt, anySt, retr, cacheVars>>
       ELSE LET existing == running[a]
                cancel == CancelsExisting(existing, req)
                run0 == IF cancel THEN [running EXCEPT ![a] = NoEntry] ELSE running
                mdns0 == IF cancel THEN CancelMdns({a}, TRUE) ELSE mdns
                log0 == IF cancel THEN Logged(<<c, "main">>, <<"cancelScan">>) ELSE log
                cl == [cl0 EXCEPT !.opAddr = KnownOperationalAddressFor(a),
                                  !.runType = IF cancel THEN DiscNone ELSE existing.type,
                                  !.prom = ExistingPromises(existing)]
            IN  /\ retr' = IF cancel THEN CancelRetr({a}, TRUE) ELSE retr
                /\ UNCHANGED cacheVars
                /\ IF TriesDirect(cl.opAddr, cl.runType, req)
                   THEN /\ call' = [call EXCEPT ![c] = [cl EXCEPT !.pc = "direct"]]
                        /\ pairSt' = [pairSt EXCEPT ![<<c, "main">>] = PairCalled(cl.opAddr)]
                        /\ running' = run0
                        /\ mdns' = mdns0
                        /\ log' = [log0 EXCEPT ![<<c, "main">>] = @ \o OpenLog(cl.opAddr)]
                        /\ UNCHANGED <<timerOn, pollPromise, anySt>>
                   ELSE /\ Discover(c, cl, run0, mdns0, log0)
                        /\ UNCHANGED pairSt
    /\ UNCHANGED <<peerVars, mgrVars, scanVars, polls, queueClosed>>

\* the direct reconnect has returned r to #connectOrDiscoverNode
AfterDirect(c, r, log0) ==
    LET cl == call[c] IN
    /\ pairSt' = [pairSt EXCEPT ![<<c, "main">>] = IdlePair]
    /\ retr' = retr
    /\ IF r.kind = "ok"
       THEN /\ Connected(c, cl, r.ch)
            /\ log' = log0
            /\ UNCHANGED <<running, timerOn, pollPromise, mdns, anySt>>
       ELSE IF r.kind = "err"
       THEN /\ ResumeCatch(c, cl, r.err, log0)
            /\ UNCHANGED <<running, timerOn, pollPromise, mdns, anySt, cacheVars>>
       ELSE IF cl.type = DiscNone
       THEN /\ ResumeCatch(c, cl, "Discovery", log0)
            /\ UNCHANGED <<running, timerOn, pollPromise, mdns, anySt, cacheVars>>
       ELSE /\ Discover(c, cl, running, mdns, log0)
            /\ UNCHANGED cacheVars

\* anyPromise has settled: the discovery's owner runs its finally, then the
\* result passes through #resume to connect
MainAfterAny(c) ==
    /\ Turn(c)
    /\ call[c].pc = "any"
    /\ anySt[c].res.kind # "pending"
    /\ running' = IF call[c].owner THEN [running EXCEPT ![call[c].addr] = NoEntry] ELSE running
    /\ IF anySt[c].res.kind = "ok"
       THEN /\ Connected(c, call[c], anySt[c].res.ch)
            /\ log' = log
       ELSE /\ ResumeCatch(c, call[c], anySt[c].res.err, log)
            /\ UNCHANGED cacheVars
    /\ UNCHANGED <<peerVars, mgrVars, scanVars, timerOn, pollPromise, polls, mdns, pairSt,
                   anySt, retr, queueClosed>>

\* #resume: removeAllSessionsForNode has settled, the error is thrown on
ResumeFailDone(c) ==
    /\ Turn(c)
    /\ call[c].pc = "resume_fail"
    /\ sessions' = [sessions EXCEPT ![call[c].addr] = FALSE]
    /\ call' = [call EXCEPT ![c] = [@ EXCEPT !.pc = "done"]]
    /\ UNCHANGED <<peerVars, channels, resumption, scanVars, discVars, mdns, pairSt, anySt,
                   retr, queueClosed, cacheVars, log>>


(* ----------------------------- mDNS producer --------------------------- *)
\* the address iteration of the producer has ended with r: the producer
\* settles and its anyPromise is told
AfterIterate(c, r, log0) ==
    /\ pairSt' = [pairSt EXCEPT ![<<c, "mdns">>] = IdlePair]
    /\ mdns' = [mdns EXCEPT ![c] = [@ EXCEPT !.st = "done"]]
    /\ anySt' = [anySt EXCEPT ![c] = AnySettle(@, r)]
    /\ log' = log0
    /\ UNCHANGED <<call, running, timerOn, pollPromise, retr, cacheVars>>

(* ----------------------------- polling timer --------------------------- *)
\* the polling callback settles the discovery when its timer is still running
PollSettles(r, isRunning) == r.kind # "undefined" /\ isRunning

\* the reconnect of a polling attempt of discovery o has returned r
AfterPoll(o, r, log0) ==
    LET a == call[o].addr IN
    /\ pairSt' = [pairSt EXCEPT ![<<o, "poll">>] = IdlePair]
    /\ call' = call
    /\ UNCHANGED cacheVars
    /\ IF PollSettles(r, timerOn[o])
       THEN /\ timerOn' = [timerOn EXCEPT ![o] = FALSE]
            /\ mdns' = CancelMdns({a}, TRUE)
            /\ retr' = CancelRetr({a}, TRUE)
            /\ running' = [running EXCEPT ![a] = NoEntry]
            /\ pollPromise' = [pollPromise EXCEPT ![o] = r]
            /\ anySt' = PollSettled(o, r)
            /\ log' = [log0 EXCEPT ![<<o, "poll">>] = @ \o <<"cancelScan">>]
       ELSE /\ log' = log0
            /\ UNCHANGED <<timerOn, mdns, retr, running, pollPromise, anySt>>

\* the periodic timer of discovery o fires: a reconnect to the address the
\* discovery was started with
TimerFire(o) ==
    /\ Turn(o)
    /\ timerOn[o]
    /\ pairSt[<<o, "poll">>].st = "idle"
    /\ polls[o] < MaxPolls
    /\ polls' = [polls EXCEPT ![o] = @ + 1]
    /\ pairSt' = [pairSt EXCEPT ![<<o, "poll">>] = PairCalled(call[o].opAddr)]
    /\ log' = Logged(<<o, "poll">>, OpenLog(call[o].opAddr))
    /\ UNCHANGED <<peerVars, mgrVars, scanVars, running, timerOn, pollPromise, call, mdns,
                   anySt, retr, queueClosed, cacheVars>>

\* the reconnect closure of a client: #reconnectKnownAddress has returned r;
\* undefined becomes RetransmissionLimitReached, a channel is looked up again
AfterReconnect(c, r, log0) ==
    /\ pairSt' = [pairSt EXCEPT ![<<c, "main">>] = IdlePair]
    /\ log' = log0
    /\ call' = IF r.kind = "err" THEN Failed(c, r.err)
               ELSE IF r.kind = "undefined" THEN Failed(c, "RetransmissionLimitReached")
               ELSE IF GetChannel(call[c].addr) = NoCh THEN Failed(c, "NoChannel")
               ELSE Done(c, Ok(GetChannel(call[c].addr)))
    /\ UNCHANGED <<running, timerOn, pollPromise, mdns, anySt, retr, cacheVars>>

(* --------------------------------- #pair ------------------------------- *)
AddrOf(t) == call[t[1]].addr

\* the caller of #pair or of #reconnectKnownAddress goes on with r
Return(t, r, log0) ==
    IF t[2] = "main" /\ call[t[1]].op = "reconnect" THEN AfterReconnect(t[1], r, log0)
    ELSE IF t[2] = "main" THEN AfterDirect(t[1], r, log0)
    ELSE IF t[2] = "poll" THEN AfterPoll(t[1], r, log0)
    ELSE AfterIterate(t[1], r, log0)

\* iterateServerAddresses of the mDNS producer: a no-response timeout of an
\* address is passed over; when no address is left it gives up with
\* PairRetransmissionLimitReached; any other error is thrown on
IterationError(e) == IF IsNoResponseTimeout(e) THEN "PairRetransmissionLimitReached" ELSE e

\* #pair has thrown e (the log of the task records it) into the address
\* iteration of the mDNS producer, or into #reconnectKnownAddress, which
\* removes the sessions and returns undefined on a no-response timeout and
\* throws any other error on
Thrown(t, e, log0) ==
    LET thrown == [log0 EXCEPT ![t] = @ \o <<e>>] IN
    IF t[2] = "mdns"
    THEN /\ Return(t, Err(IterationError(e)), thrown)
         /\ UNCHANGED sessions
    ELSE IF IsNoResponseTimeout(e)
    THEN /\ sessions' = [sessions EXCEPT ![AddrOf(t)] = FALSE]
         /\ Return(t, Undefined, [thrown EXCEPT ![t] = @ \o <<"sessRemove">>])
    ELSE /\ Return(t, Err(e), thrown)
         /\ UNCHANGED sessions

\* the error #pair throws for a failure e of the exchange or of CASE
ConvertedError(e) == IF IsNoResponseTimeout(e) THEN "PairRetransmissionLimitReached" ELSE e

\* the caller of #pair is resumed with what #pair has thrown for want of an
\* interface, or openChannel has settled; on success the unsecure session is
\* created, the exchange initiated and CASE starts; its failure leaves #pair
\* as it is
OpenChannelDone(t) ==
    /\ Turn(t[1])
    /\ pairSt[t].st \in {"open", "thrown"}
    /\ \E o \in {"ok", "NoResponseTimeout", "Other"} :
         IF pairSt[t].st = "thrown"
         THEN /\ o = "ok"
              /\ Thrown(t, "PairRetransmissionLimitReached", log)
              /\ UNCHANGED polls
         ELSE IF o = "ok"
         THEN /\ pairSt' = [pairSt EXCEPT ![t] = [@ EXCEPT !.st = "case"]]
              /\ log' = Logged(t, <<"unsecure", "exchange", "case">>)
              /\ UNCHANGED <<sessions, discVars, call, mdns, anySt, retr, cacheVars>>
         ELSE /\ Thrown(t, o, log)
              /\ UNCHANGED polls
    /\ UNCHANGED <<peerVars, channels, resumption, scanVars, queueClosed>>

\* #addOrUpdatePeer up to the await of store.updatePeer
AddOrUpdatePeer(a, x) ==
    LET known == peersByAddress[a] # NoPeer
        p == IF known THEN peersByAddress[a] ELSE FreshPeer
    IN  /\ peers' = peers \cup {p}
        /\ IF known THEN UNCHANGED <<peersByAddress, seen>>
           ELSE LET e == EmitAdded(peersByAddress, seen, a, p)
                IN  peersByAddress' = e.idx /\ seen' = e.seen
        /\ peerRec' = [peerRec EXCEPT ![p] = [address |-> a, operationalAddress |-> x]]

\* #pair after caseClient.pair: a session that was not resumed clears the
\* address's entry of #nodeCachedData
PairedCache(m, a, resumed) == IF resumed THEN m ELSE [m EXCEPT ![a] = NoCache]

\* CASE has settled (a session is resumed only from a resumption record). On
\* success the cache entry is cleared unless the session was resumed, the
\* unsecure session is destroyed, the channel registered and the peer updated
\* up to the await of store.updatePeer; on failure the exchange is closed and
\* the error converted
CaseDone(t) ==
    /\ Turn(t[1])
    /\ pairSt[t].st = "case"
    /\ \E o \in {"ok", "resumed", "NoResponseTimeout", "Other"} :
         IF o \in {"ok", "resumed"}
         THEN /\ o = "resumed" => resumption[AddrOf(t)]
              /\ nodeCachedData' = PairedCache(nodeCachedData, AddrOf(t), o = "resumed")
              /\ UNCHANGED cacheData
              /\ sessions' = [sessions EXCEPT ![AddrOf(t)] = TRUE]
              /\ resumption' = [resumption EXCEPT ![AddrOf(t)] = TRUE]
              /\ channels' = [channels EXCEPT ![AddrOf(t)] = Channel(AddrOf(t), pairSt[t].to)]
              /\ AddOrUpdatePeer(AddrOf(t), pairSt[t].to)
              /\ pairSt' = [pairSt EXCEPT ![t] =
                              [@ EXCEPT !.st = "store",
                                        !.res = Ok(Channel(AddrOf(t), pairSt[t].to))]]
              /\ log' = Logged(t, <<"destroyUnsecure", "setChannel", "storeUpdate">>)
              /\ UNCHANGED <<discVars, call, mdns, anySt, retr>>
         ELSE /\ Thrown(t, ConvertedError(o), Logged(t, <<"exchangeClose">>))
              /\ UNCHANGED <<peers, peersByAddress, peerRec, seen, channels, resumption, polls>>
    /\ UNCHANGED <<store, loaded, scanVars, queueClosed>>

\* store.updatePeer has settled: the channel is returned
StoreUpdated(t) ==
    /\ Turn(t[1])
    /\ pairSt[t].st = "store"
    /\ store' = [store EXCEPT ![AddrOf(t)] = pairSt[t].to]
    /\ Return(t, pairSt[t].res, log)
    /\ UNCHANGED <<peers, peersByAddress, peerRec, seen, loaded, mgrVars, scanVars, polls,
                   queueClosed>>

(* ------------------------- the reconnect closure ----------------------- *)
\* a closure that does not look for the channel first
ReconnectsUnchecked(c) ==
    /\ Turn(c)
    /\ At(c, "connect", "done")
    /\ call[c].res.kind = "ok"
    /\ call' = [call EXCEPT ![c] = [@ EXCEPT !.op = "reconnect", !.pc = "rc_chan"]]
    /\ log' = [log EXCEPT ![<<c, "main">>] = <<"chanRemove">>]
    /\ UNCHANGED <<peerVars, mgrVars, scanVars, discVars, mdns, pairSt, anySt, retr,
                   queueClosed, cacheVars>>

\* the closure connect(c) has given to the ExchangeProvider of the client it
\* returned is called, up to the await of removeAllNodeChannels
StartReconnect(c) ==
    /\ Turn(c)
    /\ At(c, "connect", "done")
    /\ call[c].res.kind = "ok"
    /\ IF channels[call[c].addr] = NoCh
       THEN /\ call' = [call EXCEPT ![c] =
                           [@ EXCEPT !.op = "reconnect",
                                     !.res = Err("RetransmissionLimitReached")]]
            /\ log' = log
       ELSE /\ call' = [call EXCEPT ![c] = [@ EXCEPT !.op = "reconnect", !.pc = "rc_chan"]]
            /\ log' = [log EXCEPT ![<<c, "main">>] = <<"chanRemove">>]
    /\ UNCHANGED <<peerVars, mgrVars, scanVars, discVars, mdns, pairSt, anySt, retr,
                   queueClosed, cacheVars>>

\* removeAllNodeChannels has settled: the known operational address is looked
\* up and #reconnectKnownAddress starts #pair (up to the await of openChannel),
\* or with no address the sessions are removed
ReconnectChannelsRemoved(c) ==
    LET a == call[c].addr
        operationalAddress == KnownOperationalAddressFor(a)
    IN
    /\ Turn(c)
    /\ At(c, "reconnect", "rc_chan")
    /\ channels' = [channels EXCEPT ![a] = NoCh]
    /\ IF operationalAddress = NoOp
       THEN /\ call' = [call EXCEPT ![c] = [@ EXCEPT !.pc = "rc_sess"]]
            /\ log' = Logged(<<c, "main">>, <<"sessRemove">>)
            /\ UNCHANGED pairSt
       ELSE /\ call' = [call EXCEPT ![c] = [@ EXCEPT !.pc = "rc_pair"]]
            /\ pairSt' = [pairSt EXCEPT ![<<c, "main">>] = PairCalled(operationalAddress)]
            /\ log' = Logged(<<c, "main">>, OpenLog(operationalAddress))
    /\ UNCHANGED <<peerVars, sessions, resumption, scanVars, discVars, mdns, anySt, retr,
                   queueClosed, cacheVars>>

\* removeAllSessionsForNode has settled: RetransmissionLimitReached is thrown
ReconnectSessionsRemoved(c) ==
    /\ Turn(c)
    /\ At(c, "reconnect", "rc_sess")
    /\ sessions' = [sessions EXCEPT ![call[c].addr] = FALSE]
    /\ call' = Failed(c, "RetransmissionLimitReached")
    /\ UNCHANGED <<peerVars, channels, resumption, scanVars, discVars, mdns, pairSt, anySt,
                   retr, queueClosed, cacheVars, log>>

(* --------------------------- InteractionClient ------------------------- *)
\* the client connect call c returned stores attribute values it has read
\* from the node in the cache object it was given
ClientCollects(c) ==
    /\ Turn(c)
    /\ call[c].op = "connect" /\ call[c].pc = "done" /\ call[c].res.kind = "ok"
    /\ ~cacheData[call[c].cache]
    /\ cacheData' = [cacheData EXCEPT ![call[c].cache] = TRUE]
    /\ UNCHANGED <<peerVars, mgrVars, scanVars, discVars, taskVars, retr, queueClosed,
                   nodeCachedData, log>>

(* ------------------------ mDNS producer: the scan ---------------------- *)
\* the scan of discoverOperationalDevice has delivered the device at x: the
\* current discovery's timer is stopped, its entry removed, pairing starts
ScanDelivered(c, x) ==
    LET a == call[c].addr
        o == running[a].owner
    IN  /\ timerOn' = IF o \in Calls THEN [timerOn EXCEPT ![o] = FALSE] ELSE timerOn
        /\ running' = [running EXCEPT ![a] = NoEntry]
        /\ mdns' = [mdns EXCEPT ![c] = [@ EXCEPT !.st = "pair", !.to = x]]
        /\ pairSt' = [pairSt EXCEPT ![<<c, "mdns">>] = PairCalled(x)]
        /\ log' = Logged(<<c, "mdns">>, OpenLog(x))

\* the producer rejects before any pairing: its anyPromise is told
MdnsRejected(c, e) ==
    /\ mdns' = [mdns EXCEPT ![c] = [@ EXCEPT !.st = "done"]]
    /\ anySt' = [anySt EXCEPT ![c] = AnyReject(@, e)]

\* the scanner finds the device at x
ScanFound(c, x) ==
    /\ Turn(c)
    /\ mdns[c].st = "scan"
    /\ scanCache' = [scanCache EXCEPT ![call[c].addr] = Device(<<x>>)]
    /\ ScanDelivered(c, x)
    /\ UNCHANGED <<peerVars, mgrVars, scannerPresent, netInterfaces, pollPromise, polls, call, anySt, retr,
                   queueClosed, cacheVars>>

\* the scan ends at its timeout with nothing found: DiscoveryError
ScanTimeout(c) ==
    /\ Turn(c)
    /\ mdns[c].st = "scan"
    /\ mdns[c].tmo
    /\ MdnsRejected(c, "Discovery")
    /\ UNCHANGED <<peerVars, mgrVars, scanVars, discVars, call, pairSt, retr, queueClosed, cacheVars, log>>

\* the scan was cancelled with its waiters resolved: it delivers what the
\* scanner has on record
ScanCancelled(c) ==
    /\ Turn(c)
    /\ mdns[c].st = "cancelled"
    /\ LET d == scanCache[call[c].addr] IN
       IF d.known /\ Len(d.addresses) > 0
       THEN /\ ScanDelivered(c, d.addresses[1])
            /\ UNCHANGED anySt
       ELSE /\ MdnsRejected(c, "Discovery")
            /\ UNCHANGED <<running, timerOn, pairSt, log>>
    /\ UNCHANGED <<peerVars, mgrVars, scanVars, pollPromise, polls, call, retr, queueClosed, cacheVars>>

(* -------------------------- resubmission reactor ----------------------- *)
\* a reactor that does not look for a discovery already running
ResubmissionOverwrites(session) ==
    LET a == session.addr IN
    /\ NoCallBusy
    /\ session.isSecure /\ a # NoAddr /\ sessions[a] /\ retr[a] = "idle"
    /\ handled' = session
    /\ running' = [running EXCEPT ![a] =
                       [type |-> RetransmissionDiscovery, owner |-> ByReactor]]
    /\ retr' = IF scannerPresent THEN [retr EXCEPT ![a] = "scan"] ELSE retr
    /\ UNCHANGED <<peerVars, mgrVars, scanVars, timerOn, pollPromise, polls, taskVars,
                   queueClosed, cacheVars, log>>

\* #handleResubmissionStarted(session); a secure session of a peer is one
\* the session manager holds, and the peer's previous scan is over
ResubmissionStarted(session) ==
    LET a == session.addr IN
    /\ NoCallBusy
    /\ (session.isSecure /\ a # NoAddr) =>
            (sessions[a] /\ (running[a] = NoEntry => retr[a] = "idle"))
    /\ handled' = session
    /\ IF ~session.isSecure \/ a = NoAddr
       THEN UNCHANGED <<running, retr>>
       ELSE IF running[a] # NoEntry
       THEN UNCHANGED <<running, retr>>
       ELSE /\ running' = [running EXCEPT ![a] =
                               [type |-> RetransmissionDiscovery, owner |-> ByReactor]]
            /\ retr' = IF scannerPresent THEN [retr EXCEPT ![a] = "scan"] ELSE retr
    /\ UNCHANGED <<peerVars, mgrVars, scanVars, timerOn, pollPromise, polls, taskVars,
                   queueClosed, cacheVars, log>>

\* the reactor's scan has settled (found, timed out or failed): finally
RetransmissionDone(a) ==
    /\ Quiet
    /\ retr[a] \in {"scan", "cancelled"}
    /\ retr' = [retr EXCEPT ![a] = "idle"]
    /\ running' = IF running[a].type = RetransmissionDiscovery
                  THEN [running EXCEPT ![a] = NoEntry] ELSE running
    /\ UNCHANGED <<peerVars, mgrVars, scanVars, timerOn, pollPromise, polls, taskVars,
                   queueClosed, cacheVars, log>>

(* --------------------- AsyncConstruction: the methods ------------------ *)

\* a start that runs the initializer again when one has already run
StartRestarts(how) ==
    /\ started' = TRUE
    /\ IF how = "throws"
       THEN /\ error' = "e"
            /\ ready' = TRUE
            /\ status' = "Incapacitated"
            /\ ret' = [op |-> "start", thrown |-> "e"]
            /\ UNCHANGED <<promise, settled, chained>>
       ELSE IF how = "async"
       THEN /\ ready' = FALSE
            /\ settled' = [settled EXCEPT ![Initialization] = "pending"]
            /\ IF promise # NoPromise
               THEN chained' = promise /\ UNCHANGED promise
               ELSE promise' = Initialization /\ UNCHANGED chained
            /\ ret' = [op |-> "start", thrown |-> "none"]
            /\ UNCHANGED <<status, error>>
       ELSE /\ ready' = TRUE
            /\ status' = "Active"
            /\ ret' = [op |-> "start", thrown |-> "none"]
            /\ UNCHANGED <<error, promise, settled, chained>>
    /\ UNCHANGED <<canceled, awaiters, cancelHook, hookCalls, PeerSetVars, internVars, partVars, bleVars>>

\* a cancel that does not remember an earlier cancel
CancelRepeats ==
    /\ ret' = [op |-> "cancel", thrown |-> "none"]
    /\ IF ready \/ ~cancelHook
       THEN UNCHANGED <<canceled, status, hookCalls>>
       ELSE /\ canceled' = TRUE
            /\ status' = "Destroyed"
            /\ hookCalls' = hookCalls + 1
    /\ UNCHANGED <<started, ready, error, promise, settled, chained, awaiters, cancelHook,
                   PeerSetVars, internVars, partVars, bleVars>>

\* an assert that does not look at `canceled`
AssertIgnoresCancel ==
    /\ ret' = [op |-> "assert",
               thrown |-> IF error # "none" THEN "IncapacitatedDependency"
                          ELSE IF ~ready THEN "UninitializedDependency"
                          ELSE "none"]
    /\ UNCHANGED <<started, ready, canceled, status, error, promise, settled, chained,
                   awaiters, cancelHook, hookCalls, PeerSetVars, internVars, partVars, bleVars>>

\* start(initializer); how: the initializer returns no promise ("sync"),
\* throws ("throws") or returns a promise ("async")
Start(how) ==
    /\ IF started
       THEN /\ ret' = [op |-> "start", thrown |-> "Implementation"]
            /\ UNCHANGED <<started, ready, status, error, promise, settled, chained>>
       ELSE /\ started' = TRUE
            /\ IF how = "throws"
               THEN /\ error' = "e"
                    /\ ready' = TRUE
                    /\ status' = "Incapacitated"
                    /\ ret' = [op |-> "start", thrown |-> "e"]
                    /\ UNCHANGED <<promise, settled, chained>>
               ELSE IF how = "async"
               THEN /\ ready' = FALSE
                    /\ settled' = [settled EXCEPT ![Initialization] = "pending"]
                    /\ IF promise # NoPromise
                       THEN chained' = promise /\ UNCHANGED promise
                       ELSE promise' = Initialization /\ UNCHANGED chained
                    /\ ret' = [op |-> "start", thrown |-> "none"]
                    /\ UNCHANGED <<status, error>>
               ELSE /\ ready' = TRUE
                    /\ status' = "Active"
                    /\ ret' = [op |-> "start", thrown |-> "none"]
                    /\ UNCHANGED <<error, promise, settled, chained>>
    /\ UNCHANGED <<canceled, awaiters, cancelHook, hookCalls, PeerSetVars, internVars, partVars, bleVars>>

\* the promise the initializer returned settles: the chained placeholder is
\* settled with it, then the callbacks of start run
InitializationSettles(ok) ==
    /\ settled[Initialization] = "pending"
    /\ settled' = [p \in Promises |->
                     IF p = Initialization \/ p = chained
                     THEN (IF ok THEN "resolved" ELSE "rejected")
                     ELSE settled[p]]
    /\ ready' = TRUE
    /\ status' = IF ok THEN "Active" ELSE "Incapacitated"
    /\ error' = IF ok THEN error ELSE "e"
    /\ UNCHANGED <<started, canceled, promise, chained, awaiters, cancelHook, hookCalls, ret,
                   PeerSetVars, internVars, partVars, bleVars>>

\* cancel()
Cancel ==
    /\ ret' = [op |-> "cancel", thrown |-> "none"]
    /\ IF ready \/ canceled \/ ~cancelHook
       THEN UNCHANGED <<canceled, status, hookCalls>>
       ELSE /\ canceled' = TRUE
            /\ status' = "Destroyed"
            /\ hookCalls' = hookCalls + 1
    /\ UNCHANGED <<started, ready, error, promise, settled, chained, awaiters, cancelHook,
                   PeerSetVars, internVars, partVars, bleVars>>

\* assert()
AssertReady ==
    /\ ret' = [op |-> "assert",
               thrown |-> IF error # "none" THEN "IncapacitatedDependency"
                          ELSE IF ~ready \/ canceled THEN "UninitializedDependency"
                          ELSE "none"]
    /\ UNCHANGED <<started, ready, canceled, status, error, promise, settled, chained,
                   awaiters, cancelHook, hookCalls, PeerSetVars, internVars, partVars, bleVars>>

\* then(onfulfilled, onrejected): before start a new placeholder promise
\* replaces `promise`; the callbacks are attached to `promise`, or to
\* Promise.resolve(target) when there is none
Then ==
    /\ Len(awaiters) < MaxAwaiters
    /\ LET placeholder == Len(awaiters) + 1
           on == IF ~started THEN placeholder ELSE promise
       IN  /\ promise' = on
           /\ settled' = IF ~started THEN [settled EXCEPT ![placeholder] = "pending"]
                         ELSE settled
           /\ awaiters' = Append(awaiters, on)
    /\ ret' = [op |-> "then", thrown |-> "none"]
    /\ UNCHANGED <<started, ready, canceled, status, error, chained, cancelHook, hookCalls,
                   PeerSetVars, internVars, partVars, bleVars>>

\* what the i-th then() call has delivered to its callbacks so far
Awaited(i) ==
    IF awaiters[i] = NoPromise THEN "fulfilled"
    ELSE IF settled[awaiters[i]] = "resolved" THEN "fulfilled"
    ELSE IF settled[awaiters[i]] = "rejected" THEN "rejected"
    ELSE "pending"

(* ------------------------ PeerAddress: interning ----------------------- *)
\* the caller builds an address { fabricIndex, nodeId }
NewAddress(f, n) ==
    /\ Len(objects) < MaxObjects
    /\ objects' = Append(objects, [fabricIndex |-> f, nodeId |-> n, interned |-> FALSE])
    /\ UNCHANGED <<internedAddresses, canonical, PeerSetVars, constructionVars, partVars, bleVars>>

\* the caller copies an address, { ...address }: the copy has every own
\* enumerable property of the original, the `interned` marker included
CopyAddress(o) ==
    /\ o \in 1..Len(objects)
    /\ Len(objects) < MaxObjects
    /\ objects' = Append(objects, objects[o])
    /\ UNCHANGED <<internedAddresses, canonical, PeerSetVars, constructionVars, partVars, bleVars>>

\* internedAddresses.get(fabricIndex), or the new Map set for it
InternedFabric(f) ==
    IF f \in DOMAIN internedAddresses THEN internedAddresses[f] ELSE << >>

\* PeerAddress(address) on the object o
PeerAddress(o) ==
    /\ o \in 1..Len(objects)
    /\ LET address == objects[o]
           internedFabric == InternedFabric(address.fabricIndex)
           created == Len(objects) + 1
       IN  IF address.interned
           THEN /\ canonical' = [canonical EXCEPT ![o] = o]
                /\ UNCHANGED <<objects, internedAddresses>>
           ELSE IF address.nodeId \in DOMAIN internedFabric
           THEN /\ canonical' = [canonical EXCEPT ![o] = internedFabric[address.nodeId]]
                /\ UNCHANGED <<objects, internedAddresses>>
           ELSE /\ Len(objects) < MaxObjects
                /\ objects' = Append(objects, [address EXCEPT !.interned = TRUE])
                /\ internedAddresses' =
                      [f \in DOMAIN internedAddresses \cup {address.fabricIndex} |->
                         IF f = address.fabricIndex
                         THEN [n \in DOMAIN internedFabric \cup {address.nodeId} |->
                                 IF n = address.nodeId THEN created ELSE internedFabric[n]]
                         ELSE internedAddresses[f]]
                /\ canonical' = [canonical EXCEPT ![o] = created]
    /\ UNCHANGED <<PeerSetVars, constructionVars, partVars, bleVars>>

(* ------------------ PartStoreService: endpoint numbers ----------------- *)
\* #construction.assert(): what it throws
AssertThrows ==
    IF error # "none" THEN "IncapacitatedDependency"
    ELSE IF ~ready \/ canceled THEN "UninitializedDependency"
    ELSE "none"

\* the initializer's reading of the next number: the stored value modulo
\* 0xffff, 1 when that is 0 (and then nothing counts as persisted)
LoadedNextNumber(storedNumber) ==
    /\ nextNumber = (IF storedNumber % NumberSpace = 0 THEN 1 ELSE storedNumber % NumberSpace)
    /\ persistedNextNumber = storedNumber % NumberSpace

\* the search loop of assignNumber from the number n; it gives up when it
\* comes back to the number it started from
RECURSIVE FreeNumber(_, _, _)
FreeNumber(n, startNumber, turns) ==
    IF ~(n < 2 \/ n \in allocatedNumbers) THEN [kind |-> "found", number |-> n]
    ELSE LET m == (n + 1) % NumberSpace
         IN  IF m = startNumber THEN [kind |-> "exhausted", number |-> m]
             ELSE IF turns = 0 THEN [kind |-> "spins", number |-> m]
             ELSE FreeNumber(m, startNumber, turns - 1)

\* assignNumber(part) on the part p (every part has an id)
AssignNumber(p) ==
    /\ IF AssertThrows # "none"
       THEN /\ assign' = [part |-> p, thrown |-> AssertThrows]
            /\ UNCHANGED <<partNumber, stores, storeNumber, knownParts, allocatedNumbers,
                           nextNumber, numbersToPersist>>
       ELSE /\ stores' = stores \cup {p}
            /\ knownParts' = knownParts \cup {p}
            /\ IF partNumber[p] # 0
               THEN IF partNumber[p] \in allocatedNumbers
                    THEN /\ assign' = [part |-> p,
                                       thrown |-> IF storeNumber[p] # partNumber[p]
                                                  THEN "IdentityConflict" ELSE "none"]
                         /\ UNCHANGED <<partNumber, storeNumber, allocatedNumbers,
                                        nextNumber, numbersToPersist>>
                    ELSE /\ storeNumber' = [storeNumber EXCEPT ![p] = partNumber[p]]
                         /\ numbersToPersist' = numbersToPersist \cup {p}
                         /\ assign' = [part |-> p, thrown |-> "none"]
                         /\ UNCHANGED <<partNumber, allocatedNumbers, nextNumber>>
               ELSE IF storeNumber[p] # 0
               THEN /\ partNumber' = [partNumber EXCEPT ![p] = storeNumber[p]]
                    /\ assign' = [part |-> p, thrown |-> "none"]
                    /\ UNCHANGED <<storeNumber, allocatedNumbers, nextNumber,
                                   numbersToPersist>>
               ELSE LET free == FreeNumber(nextNumber, nextNumber, NumberSpace)
                    IN  IF free.kind = "found"
                        THEN /\ nextNumber' = free.number + 1
                             /\ partNumber' = [partNumber EXCEPT ![p] = free.number]
                             /\ allocatedNumbers' = allocatedNumbers \cup {free.number}
                             /\ storeNumber' = [storeNumber EXCEPT ![p] = free.number]
                             /\ numbersToPersist' = numbersToPersist \cup {p}
                             /\ assign' = [part |-> p, thrown |-> "none"]
                        ELSE /\ free.kind = "exhausted"
                             /\ nextNumber' = free.number
                             /\ assign' = [part |-> p, thrown |-> "Implementation"]
                             /\ UNCHANGED <<partNumber, allocatedNumbers, storeNumber,
                                            numbersToPersist>>
    /\ UNCHANGED <<persistedNextNumber, PeerSetVars, constructionVars, internVars, bleVars>>

\* the number persister queued by #persistNumber runs: it saves the numbers
\* of the parts collected so far, then the next number
PersistNumbers ==
    /\ numbersToPersist # {}
    /\ AssertThrows = "none"
    /\ numbersToPersist' = {}
    /\ persistedNextNumber' = nextNumber
    /\ UNCHANGED <<partNumber, stores, storeNumber, knownParts, allocatedNumbers, nextNumber,
                   assign, PeerSetVars, constructionVars, internVars, bleVars>>

(* ---------------------------- specification ---------------------------- *)
\* the steps of a connect call c under way, of its producers and its pairings
\* (but for the end of a scan at its timeout)
ConnectProgress(c) ==
    \/ MainAfterAny(c)
    \/ ResumeFailDone(c)
    \/ \E k \in Kinds :
          \/ OpenChannelDone(<<c, k>>)
          \/ CaseDone(<<c, k>>)
          \/ StoreUpdated(<<c, k>>)
    \/ \E x \in OpAddrs : ScanFound(c, x)
    \/ ScanCancelled(c)

\* connect: the steps of call c and of the producers and the timer it created
ConnectStep(c) ==
    \/ \E a \in Addrs, dt \in DiscoveryTypes \cup {Unset}, tmo \in BOOLEAN :
          StartConnect(c, a, dt, tmo)
    \/ ConnectProgress(c)
    \/ ScanTimeout(c)

\* delete, disconnect and close: the steps of call c
AdminStep(c) ==
    \/ \E a \in Addrs : StartDelete(c, a)
    \/ \E a \in Addrs : StartDisconnect(c, a)
    \/ StartClose(c)
    \/ DeleteStoreDone(c)
    \/ DiscSessDone(c)
    \/ DiscChanDone(c)
    \/ DeleteResumpDone(c)

Step(c) == ConnectStep(c) \/ AdminStep(c)

Reactor ==
    \/ \E session \in Sessions : ResubmissionStarted(session)
    \/ \E a \in Addrs : RetransmissionDone(a)

\* One operation at a time: a call runs from its start to its end with no
\* step of another call or of an earlier call's producers in between.  All
\* operations and the polling timers.
InitSeq == Init0 /\ serial = TRUE /\ early = FALSE

NextSeq ==
    \/ LoadPeers
    \/ \E c \in Calls : Step(c)
    \/ \E c \in Calls : TimerFire(c)

SpecSeq == InitSeq /\ [][NextSeq]_vars

\* Connects, one at a time, on a node where either UDP interface may be
\* missing.
InitInterfaces == InitSeeded({}) /\ serial = TRUE /\ early = FALSE

NextInterfaces ==
    \/ LoadPeers
    \/ \E c \in Calls : ConnectStep(c)
    \/ \E c \in Calls : TimerFire(c)

SpecInterfaces == InitInterfaces /\ [][NextInterfaces]_vars

\* The reactor against connect calls, one at a time: the session manager
\* reports resubmissions at any time, also while a connect waits for its
\* discovery; it holds a session of every peer and no channel, and the
\* scanner, where there is one, has no device on record.
InitReactor ==
    /\ InitSeeded(Addrs)
    /\ netInterfaces = BoundAddresses
    /\ serial = FALSE
    /\ early = FALSE
    /\ \A a \in Addrs : channels[a] = NoCh /\ scanCache[a] = NoDevice

NextReactor ==
    \/ LoadPeers
    \/ \E c \in Calls, a \in Addrs :
          /\ \A d \in Calls \ {c} : ~Busy(d)
          /\ StartConnect(c, a, FullDiscovery, FALSE)
    \/ \E c \in Calls : ConnectProgress(c)
    \/ \E c \in Calls : TimerFire(c)
    \/ Reactor

SpecReactor == InitReactor /\ [][NextReactor]_vars

\* All operations, the polling timers and the reconnect closures of the
\* clients connect returns, one operation at a time; a closure is called when
\* no producer or timer of a connect is at work any more
NextReconnect ==
    \/ LoadPeers
    \/ \E c \in Calls : Step(c)
    \/ \E c \in Calls : TimerFire(c)
    \/ \E c \in Calls :
          /\ \A d \in Calls : ~timerOn[d] /\ mdns[d].st \in {"idle", "done", "dead"}
          /\ \A t \in Tasks : pairSt[t].st = "idle"
          /\ StartReconnect(c)
    \/ \E c \in Calls : ReconnectChannelsRemoved(c) \/ ReconnectSessionsRemoved(c)

SpecReconnect == InitSeq /\ [][NextReconnect]_vars

\* connect calls that overlap in time; they are over before a polling timer
\* (10 minutes) fires
Init == Init0 /\ serial = FALSE /\ early = FALSE

Next ==
    \/ LoadPeers
    \/ \E c \in Calls : ConnectStep(c)

Spec == Init /\ [][Next]_vars

\* close against FullDiscovery connect calls that overlap, with their polling
\* timers; the scanner has the peer on record, so that connect tries a direct
\* reconnect first; a second connect is called once the first one waits for
\* its discovery or is over, and no connect is called after close
InitClose ==
    /\ Init0
    /\ serial = FALSE
    /\ early = FALSE
    /\ scannerPresent
    /\ \A a \in Addrs : scanCache[a] = Device(<<1>>) /\ store[a] = Absent /\ channels[a] = NoCh

NextClose ==
    \/ LoadPeers
    \/ \E c \in Calls, a \in Addrs :
          /\ ~queueClosed
          /\ \A d \in Calls : d < c => call[d].pc \in {"any", "done"}
          /\ StartConnect(c, a, FullDiscovery, FALSE)
    \/ \E c \in Calls : ConnectProgress(c)
    \/ \E c \in Calls : TimerFire(c)
    \/ Close

SpecClose == InitClose /\ [][NextClose]_vars

\* connect and delete calls that overlap in time, made without awaiting the
\* construction: the initial load from the store settles at any moment; the
\* store holds a record of every peer, the scanner is present and has no
\* device on record; the connect calls are made before the first delete, so
\* that every connect under way is in flight at a delete
InitRace ==
    /\ Init0
    /\ serial = FALSE
    /\ early = TRUE
    /\ scannerPresent
    /\ \A a \in Addrs : store[a] = 1 /\ channels[a] = NoCh /\ scanCache[a] = NoDevice

DeleteStep(c) ==
    \/ \E a \in Addrs : StartDelete(c, a)
    \/ DeleteStoreDone(c)
    \/ DiscSessDone(c)
    \/ DiscChanDone(c)
    \/ DeleteResumpDone(c)

ConnectBeforeDelete(c, a, dt, tmo) ==
    /\ \A d \in Calls : call[d].op # "delete"
    /\ StartConnect(c, a, dt, tmo)

NextRace ==
    \/ LoadPeers
    \/ \E c \in Calls, a \in Addrs, dt \in DiscoveryTypes \cup {Unset}, tmo \in BOOLEAN :
          ConnectBeforeDelete(c, a, dt, tmo)
    \/ \E c \in Calls : ConnectProgress(c) \/ ScanTimeout(c)
    \/ \E c \in Calls : DeleteStep(c)

SpecRace == InitRace /\ [][NextRace]_vars

\* connect calls that overlap in time and the clients they return, which fill
\* their caches; the scanner has the peer on record
InitCache ==
    /\ Init0
    /\ serial = FALSE
    /\ early = FALSE
    /\ scannerPresent
    /\ \A a \in Addrs : scanCache[a].known /\ channels[a] = NoCh

NextCache ==
    \/ LoadPeers
    \/ \E c \in Calls : ConnectStep(c)
    \/ \E c \in Calls : ClientCollects(c)

SpecCache == InitCache /\ [][NextCache]_vars

\* connect calls that overlap in time for peers the session manager holds a
\* session of and the channel manager no channel, so that every connect resumes
InitResume ==
    /\ InitSeeded(Addrs)
    /\ netInterfaces = BoundAddresses
    /\ serial = FALSE
    /\ early = FALSE
    /\ \A a \in Addrs : channels[a] = NoCh

SpecResume == InitResume /\ [][Next]_vars

\* one AsyncConstruction, created with or without an initializer and with or
\* without a cancel function, and the calls made on it
\* a PeerSet that is not in use
NoPeerSet ==
    /\ store = [a \in Addrs |-> Absent]
    /\ peers = {}
    /\ peersByAddress = [a \in Addrs |-> NoPeer]
    /\ peerRec = [p \in PeerIds |-> [address |-> 1, operationalAddress |-> NoOp]]
    /\ seen = [p \in PeerIds |-> [ev |-> "none", got |-> NoPeer]]
    /\ loaded = FALSE
    /\ channels = [a \in Addrs |-> NoCh]
    /\ sessions = [a \in Addrs |-> FALSE]
    /\ resumption = [a \in Addrs |-> FALSE]
    /\ scanCache = [a \in Addrs |-> NoDevice]
    /\ scannerPresent = FALSE
    /\ netInterfaces = BoundAddresses
    /\ running = [a \in Addrs |-> NoEntry]
    /\ timerOn = [c \in Calls |-> FALSE]
    /\ pollPromise = [c \in Calls |-> Undefined]
    /\ polls = [c \in Calls |-> 0]
    /\ call = [c \in Calls |-> IdleCall]
    /\ mdns = [c \in Calls |-> IdleMdns]
    /\ pairSt = [t \in Tasks |-> IdlePair]
    /\ anySt = [c \in Calls |-> IdleAny]
    /\ retr = [a \in Addrs |-> "idle"]
    /\ handled = NotCalled
    /\ queueClosed = FALSE
    /\ nodeCachedData = [a \in Addrs |-> NoCache]
    /\ cacheData = [o \in Calls |-> FALSE]
    /\ log = [t \in Tasks |-> << >>]
    /\ serial = FALSE
    /\ early = FALSE

\* interning alone: callers build, copy and intern addresses
InitIntern ==
    /\ NobleCreated
    /\ Created("deferred", FALSE)
    /\ NoPeerSet
    /\ NoAddresses
    /\ NoPartStores

NextIntern ==
    \/ \E f \in FabricIndexes, n \in NodeIds : NewAddress(f, n)
    \/ \E o \in ObjectIds : CopyAddress(o)
    \/ \E o \in ObjectIds : PeerAddress(o)

SpecIntern == InitIntern /\ [][NextIntern]_vars

\* a PartStoreService whose initializer has read the next number and the
\* known part stores; parts come with or without a preset number
PresetNumbers == {0, 2, 3}
InitParts ==
    /\ NobleCreated
    /\ Created("async", FALSE)
    /\ NoPeerSet
    /\ NoAddresses
    /\ \E storedNumber \in 0..(NumberSpace - 1) : LoadedNextNumber(storedNumber)
    /\ knownParts \in SUBSET Parts
    /\ stores = knownParts
    /\ storeNumber \in [Parts -> {0} \cup 2..(NumberSpace - 1)]
    /\ \A p \in Parts : storeNumber[p] # 0 => p \in knownParts /\ storeNumber[p] < nextNumber
    /\ \A p, q \in Parts : (p # q /\ storeNumber[p] # 0) => storeNumber[p] # storeNumber[q]
    /\ partNumber \in [Parts -> PresetNumbers]
    /\ allocatedNumbers = {}
    /\ numbersToPersist = {}
    /\ assign = [part |-> 0, thrown |-> "none"]

NextParts ==
    \/ \E ok \in BOOLEAN : InitializationSettles(ok)
    \/ \E p \in Parts : AssignNumber(p)
    \/ PersistNumbers

SpecParts == InitParts /\ [][NextParts]_vars

InitConstruction ==
    /\ NobleCreated
    /\ \E how \in {"deferred", "sync", "async"}, hook \in BOOLEAN : Created(how, hook)
    /\ NoPeerSet
    /\ NoAddresses
    /\ NoPartStores

NextConstruction ==
    \/ \E how \in {"sync", "throws", "async"} : Start(how)
    \/ \E ok \in BOOLEAN : InitializationSettles(ok)
    \/ Cancel
    \/ AssertReady
    \/ Then

SpecConstruction == InitConstruction /\ [][NextConstruction]_vars

\* The BLE client against its user and the adapter.
InitBle ==
    /\ NobleCreated
    /\ Created("async", FALSE)
    /\ NoPeerSet
    /\ NoAddresses
    /\ NoPartStores

NextBle ==
    \/ StartScanning
    \/ StopScanning
    \/ \E state \in NobleStates : StateChange(state)
    \/ ScanEvent

SpecBle == InitBle /\ [][NextBle]_vars

(* =============================== claims ================================ *)
\* the step in which delete(c) of a peer that was in the set returns normally
DeleteReturns(c) ==
    /\ call[c].pc # "done"
    /\ call'[c].pc = "done"
    /\ call'[c].op = "delete"
    /\ call'[c].actual # NoPeer
    /\ call'[c].res.kind = "ok"

\* delete(c) of a peer that was in the set has returned normally
DeleteReturned(c) ==
    /\ At(c, "delete", "done")
    /\ call[c].actual # NoPeer
    /\ call[c].res.kind = "ok"

(* ---------------------------------- C1 --------------------------------- *)
\* C1: when delete(p) of a peer in the set returns, with no other operation
\* interleaved, the channel manager holds no channel for p.address and the
\* sessions of p.address are removed.
C1_DeleteRemovesChannelsAndSessions ==
    [][\A c \in Calls :
          DeleteReturns(c) =>
              /\ channels'[call'[c].addr] = NoCh
              /\ ~sessions'[call'[c].addr]]_vars

(* ---------------------------------- C2 --------------------------------- *)
\* C2: when delete(p) of a peer in the set returns, with no other operation
\* interleaved, get(p) and get(p.address) give undefined, has(p.address) is
\* false, the store was asked to delete p.address and the resumption record
\* of p.address is deleted.
C2_DeleteForgetsPeer ==
    [][\A c \in Calls :
          DeleteReturns(c) =>
              LET a == call'[c].addr
                  p == call'[c].actual
              IN  /\ peerRec'[p].address = a
                  /\ peersByAddress'[peerRec'[p].address] = NoPeer
                  /\ peersByAddress'[a] = NoPeer
                  /\ p \notin peers'
                  /\ Count(log'[<<c, "main">>], "storeDelete") = 1
                  /\ store'[a] = Absent
                  /\ Count(log'[<<c, "main">>], "resumptionDelete") = 1
                  /\ ~resumption'[a]]_vars

\* a delete of a stored peer has returned and the peer is gone
C2_Witness ==
    \E c \in Calls :
       /\ DeleteReturned(c)
       /\ ~Has(call[c].addr)
       /\ store[call[c].addr] = Absent
       /\ ~resumption[call[c].addr]

(* ---------------------------------- C3 --------------------------------- *)
\* the steps of delete in the order of the code
DeleteOrder == <<"setRemove", "storeDelete", "disconnect", "resumptionDelete">>

\* the steps of delete in s, without the calls disconnect makes itself
DeleteStepsOf(s) == SelectSeq(s, LAMBDA e : e \notin {"sessRemove", "chanRemove"})

\* the calls of disconnect come between "disconnect" and "resumptionDelete"
DisconnectInPlace(s) ==
    \A i \in 1..Len(s) :
       s[i] \in {"sessRemove", "chanRemove"} =>
          /\ \E j \in 1..(i - 1) : s[j] = "disconnect"
          /\ \A j \in 1..(i - 1) : s[j] # "resumptionDelete"

\* C3: delete(p) performs its steps in the order: remove from the set, delete
\* from the store, disconnect, delete the resumption record; all of them
\* when it returns normally, and when a step fails the failure reaches the
\* caller and no later step is performed.
C3_DeleteOrder ==
    [][\A c \in Calls :
          (call'[c].op = "delete" /\ call'[c].actual # NoPeer) =>
             LET s == log'[<<c, "main">>]
                 d == DeleteStepsOf(s)
                 ends == call[c].pc # "done" /\ call'[c].pc = "done"
             IN  /\ Len(d) <= Len(DeleteOrder)
                 /\ d = SubSeq(DeleteOrder, 1, Len(d))
                 /\ DisconnectInPlace(s)
                 /\ (ends /\ call'[c].res.kind = "ok") => d = DeleteOrder
                 /\ (ends /\ call'[c].res.kind = "err") =>
                        /\ s = log[<<c, "main">>]
                        /\ UNCHANGED <<peers, peersByAddress, store, mgrVars>>]_vars

\* a delete that ran through all its steps, the disconnect among them
C3_Witness ==
    \E c \in Calls :
       /\ DeleteReturned(c)
       /\ log[<<c, "main">>] = DeleteOrder

(* ---------------------------------- C4 --------------------------------- *)
\* the step in which connect(c) is called
ConnectStarts(c) == call[c].pc = "idle" /\ call'[c].op = "connect"

\* what connect's collaborators and the discovery bookkeeping hold
Surroundings == <<peerVars, mgrVars, scanVars, discVars, mdns, pairSt, anySt, retr, log>>

\* C4: connect for an address the channel manager has a channel for returns
\* that channel and does nothing else: no scan, no pairing, no store write,
\* no change of the running discoveries.
C4_CachedConnectOnlyReturns ==
    [][\A c \in Calls :
          (ConnectStarts(c) /\ channels[call'[c].addr] # NoCh) =>
              /\ call'[c].pc = "done"
              /\ call'[c].res = Ok(channels[call'[c].addr])
              /\ UNCHANGED Surroundings]_vars

\* a connect got the channel another connect opened, while that one's
\* discovery bookkeeping is still there
C4_Witness ==
    \E c \in Calls :
       /\ At(c, "connect", "done")
       /\ call[c].res.kind = "ok"
       /\ call[c].res.ch.to # Seeded
       /\ log[<<c, "main">>] = << >>
       /\ \E d \in Calls \ {c} : Busy(d)

(* ---------------------------------- C5 --------------------------------- *)
\* C5: connect with mode Full (and no timeout) for a peer whose stored record
\* has an operationalAddress, with no channel cached and no discovery
\* running, first reconnects directly to the stored address; when that
\* pairing succeeds connect returns after exactly one openChannel and one
\* CASE exchange, the scanner was never asked to scan and the peer record was
\* written to the store.
C5_DirectReconnectToStoredAddress ==
    [][\A c \in Calls :
          /\ (/\ ConnectStarts(c)
              /\ channels[call'[c].addr] = NoCh
              /\ call'[c].type = FullDiscovery
              /\ ~call'[c].tmo
              /\ scannerPresent
              /\ running[call'[c].addr] = NoEntry
              /\ LastOperationalAddress(call'[c].addr) # NoOp) =>
                 /\ call'[c].pc = "direct"
                 /\ pairSt'[<<c, "main">>].st = "open"
                 /\ pairSt'[<<c, "main">>].to = LastOperationalAddress(call'[c].addr)
                 /\ log'[<<c, "main">>] = <<"open">>
          /\ (/\ At(c, "connect", "direct")
              /\ call'[c].pc = "done"
              /\ call'[c].res.kind = "ok") =>
                 /\ log'[<<c, "main">>] = <<"open", "unsecure", "exchange", "case",
                                            "destroyUnsecure", "setChannel", "storeUpdate">>
                 /\ store'[call[c].addr] = call'[c].res.ch.to]_vars

(* ---------------------------------- C6 --------------------------------- *)
\* the step in which connect(c) returns a channel
ConnectReturns(c) ==
    /\ call[c].op = "connect"
    /\ call[c].pc # "done"
    /\ call'[c].pc = "done"
    /\ call'[c].res.kind = "ok"

\* the direct reconnect of c to the cached address got no response, and the
\* mDNS scan of c then delivered another address
RediscoveredElsewhere(c) ==
    /\ call[c].opAddr # NoOp
    /\ Len(log[<<c, "main">>]) >= 2
    /\ log[<<c, "main">>][1] = "open"
    /\ Count(log[<<c, "main">>], "sessRemove") = 1
    /\ mdns[c].to # NoOp
    /\ mdns[c].to # call[c].opAddr

\* C6: when the direct reconnect to the cached address fails with no response
\* and the mDNS scan then yields a different address, connect runs a second
\* CASE exchange against the discovered address, and when connect returns the
\* operationalAddress of the peer, in the set and in the store, is the
\* discovered address.
C6_RediscoveryUpdatesAddress ==
    [][\A c \in Calls :
          (ConnectReturns(c) /\ RediscoveredElsewhere(c)) =>
              /\ Count(log'[<<c, "mdns">>], "case") = 1
              /\ Has(call[c].addr)'
              /\ LastOperationalAddress(call[c].addr)' = mdns[c].to
              /\ store'[call[c].addr] = mdns[c].to]_vars

(* ---------------------------------- C7 --------------------------------- *)
\* connect calls c and d for the same address and discovering mode overlap: both
\* wait for a discovery now, or one took the producers the other registered
Overlap(c, d) ==
    /\ c # d
    /\ call[c].op = "connect" /\ call[d].op = "connect"
    /\ call[c].addr = call[d].addr
    /\ call[c].type = call[d].type
    /\ call[c].type \in {TimedDiscovery, FullDiscovery}
    /\ \/ call[c].pc = "any" /\ call[d].pc = "any"
       \/ call[d].prom = c

\* how often c and d together made the call e from the task kind k
Both(c, d, k, e) == Count(log[<<c, k>>], e) + Count(log[<<d, k>>], e)

\* C7: when two connect calls for the same uncached address overlap in time,
\* only one discovery is started: one RunningDiscovery entry is registered,
\* one scan request reaches the scanner and one CASE pairing results from it.
C7_OverlappingConnectsShareDiscovery ==
    \A c, d \in Calls :
       Overlap(c, d) =>
          /\ Both(c, d, "main", "register") <= 1
          /\ Both(c, d, "main", "scan") <= 1
          /\ Both(c, d, "mdns", "case") <= 1

(* ---------------------------------- C8 --------------------------------- *)
\* C8: when connect asks for a mode strictly higher than the mode of the
\* discovery running for the address, the running discovery is cancelled at
\* the scanner, and the discovery the call then waits for is a new one of the
\* requested mode, registered as the RunningDiscovery entry of the address.
C8_UpgradeStartsRequestedMode ==
    [][\A c \in Calls :
          /\ (/\ ConnectStarts(c)
              /\ channels[call'[c].addr] = NoCh
              /\ call'[c].res # Err("Implementation")
              /\ running[call'[c].addr].type # DiscNone
              /\ running[call'[c].addr].type < call'[c].type) =>
                 /\ log'[<<c, "main">>][1] = "cancelScan"
                 /\ \A d \in Calls :
                       (mdns[d].st = "scan" /\ call[d].addr = call'[c].addr) =>
                           mdns'[d].st # "scan"
          /\ (/\ call[c].pc # "any"
              /\ call'[c].pc = "any"
              /\ Count(log'[<<c, "main">>], "cancelScan") = 1) =>
                 /\ Count(log'[<<c, "main">>], "register") = 1
                 /\ running'[call'[c].addr] = [type |-> call'[c].type, owner |-> c]]_vars

(* ---------------------------------- C9 --------------------------------- *)
\* connect(c) starts, without a cached channel and with valid options, while
\* a connect's discovery of mode Timed or Full is registered for the address
\* and the requested mode is not higher
StartsUnderRunning(c) ==
    /\ ConnectStarts(c)
    /\ channels[call'[c].addr] = NoCh
    /\ scannerPresent
    /\ call'[c].type # RetransmissionDiscovery
    /\ call'[c].tmo => call'[c].type = TimedDiscovery
    /\ running[call'[c].addr].owner \in Calls
    /\ running[call'[c].addr].type \in {TimedDiscovery, FullDiscovery}
    /\ call'[c].type <= running[call'[c].addr].type

\* the step neither cancels the running discovery nor registers one
KeepsRunning(c) ==
    /\ running' = running
    /\ timerOn' = timerOn
    /\ pollPromise' = pollPromise
    /\ \A d \in Calls \ {c} : mdns'[d] = mdns[d]
    /\ Count(log'[<<c, "main">>], "cancelScan") = 0
    /\ Count(log'[<<c, "main">>], "register") = 0

\* call c has begun to wait on the producers of the running discovery
WaitsOnExisting(c) ==
    /\ call'[c].pc = "any"
    /\ call'[c].prom = running[call'[c].addr].owner
    /\ anySt'[c].n >= 1

\* a call that waits on another call's producers settles with what its
\* any-of combinator gave, and leaves the running discoveries alone
SettlesWithProducers(c) ==
    (At(c, "connect", "any") /\ ~call[c].owner /\ call'[c].pc # "any") =>
        /\ call'[c].res = anySt[c].res
        /\ running' = running

\* C9: when connect asks for a mode lower than or equal to the mode of the
\* discovery running for the address, the call waits on the existing
\* producers (any-of) and settles with their outcome; it neither cancels the
\* running discovery nor registers a new one.
C9_LowerOrEqualWaits ==
    [][\A c \in Calls :
          /\ StartsUnderRunning(c) => (KeepsRunning(c) /\ WaitsOnExisting(c))
          /\ SettlesWithProducers(c)]_vars

\* C9 as the code has it: a request of the same mode waits on the existing
\* producers and settles with their outcome; a request of a strictly lower
\* mode does not wait: it ends with the discovery error at once, a request of
\* mode None after one direct attempt on a cached address (whose channel it
\* returns when that succeeds); neither cancels the running discovery nor
\* registers a new one.
C9_EqualWaitsLowerFails ==
    [][\A c \in Calls :
          /\ StartsUnderRunning(c) =>
                /\ KeepsRunning(c)
                /\ call'[c].type = running[call'[c].addr].type => WaitsOnExisting(c)
                /\ call'[c].type < running[call'[c].addr].type =>
                      /\ anySt'[c] = anySt[c]
                      /\ mdns'[c] = mdns[c]
                      /\ IF call'[c].type = DiscNone /\ call'[c].opAddr # NoOp
                         THEN /\ call'[c].pc = "direct"
                              /\ log'[<<c, "main">>] = <<"open">>
                         ELSE /\ call'[c].pc \in {"resume_fail", "done"}
                              /\ call'[c].res = Err("Discovery")
          /\ SettlesWithProducers(c)
          /\ (/\ At(c, "connect", "direct")
              /\ call[c].type = DiscNone
              /\ pairSt'[<<c, "main">>] # pairSt[<<c, "main">>]) =>
                /\ call'[c].pc # "any"
                /\ running' = running
                /\ Count(log'[<<c, "main">>], "register") = 0
                /\ (call'[c].pc # "direct" /\ call'[c].res.kind = "err" /\ call'[c].res.err # "Other")
                      => call'[c].res = Err("Discovery")]_vars

\* a TimedDiscovery request met a FullDiscovery in flight and ended with the
\* discovery error without a scan of its own, the FullDiscovery still running
C9_Witness ==
    \E c \in Calls :
       /\ At(c, "connect", "done")
       /\ call[c].type = TimedDiscovery
       /\ call[c].runType = FullDiscovery
       /\ call[c].prom \in Calls
       /\ call[c].res = Err("Discovery")
       /\ anySt[c] = IdleAny
       /\ running[call[c].addr] = [type |-> FullDiscovery, owner |-> call[c].prom]

(* --------------------------------- C10 --------------------------------- *)
\* C10: connect without a cached channel that asks for RetransmissionDiscovery,
\* or gives a timeout with a mode other than TimedDiscovery, fails with the
\* implementation error, unchanged; nothing is scanned, paired or removed and
\* the running discoveries stay as they are.
C10_BadOptionsRejected ==
    [][\A c \in Calls :
          (/\ ConnectStarts(c)
           /\ channels[call'[c].addr] = NoCh
           /\ \/ call'[c].type = RetransmissionDiscovery
              \/ call'[c].tmo /\ call'[c].type # TimedDiscovery) =>
              /\ call'[c].pc = "done"
              /\ call'[c].res = Err("Implementation")
              /\ UNCHANGED Surroundings]_vars

\* a rejected RetransmissionDiscovery request and a rejected timeout, with a
\* scanner at hand and a discovery in flight
C10_Witness ==
    \E c \in Calls :
       /\ At(c, "connect", "done")
       /\ call[c].res = Err("Implementation")
       /\ scannerPresent
       /\ call[c].type = RetransmissionDiscovery \/ call[c].tmo
       /\ running[call[c].addr] # NoEntry

(* --------------------------------- C11 --------------------------------- *)
\* C11: a connect with mode None tries only cached addresses: it never asks
\* the scanner to scan, never registers a RunningDiscovery and never waits
\* for a discovery.
C11_NoneNeverDiscovers ==
    \A c \in Calls :
       (call[c].op = "connect" /\ call[c].type = DiscNone) =>
          /\ Count(log[<<c, "main">>], "scan") = 0
          /\ Count(log[<<c, "main">>], "register") = 0
          /\ call[c].pc # "any"
          /\ mdns[c] = IdleMdns

(* --------------------------------- C12 --------------------------------- *)
\* the step in which close runs
Closes == ~queueClosed /\ queueClosed'

\* C12: close stops the polling timer of every running discovery, tells the
\* scanner to end each of their scans without resolving the waiters and
\* closes the interaction queue; no connect call pending at close gets a
\* channel from close, or from a polling attempt that ends after close.
C12_CloseEndsDiscoveries ==
    [][/\ Closes =>
            /\ \A a \in Addrs :
                  running[a] # NoEntry =>
                     /\ running[a].owner \in Calls => ~timerOn'[running[a].owner]
                     /\ \A c \in Calls :
                           (mdns[c].st = "scan" /\ call[c].addr = a) => mdns'[c].st = "dead"
            /\ call' = call
            /\ anySt' = anySt
            /\ pollPromise' = pollPromise
       /\ queueClosed =>
            \A o \in Calls :
               pollPromise'[o].kind = "ok" => pollPromise[o].kind = "ok"]_vars

\* C13: in every reachable state, whatever the interleaving of the initial
\* load, connect calls and delete calls, every peer p of the set is the peer
\* the index holds for p.address (so no two peers of the set share an address)
C13_IndexMatchesSet ==
    \A p \in peers : peersByAddress[peerRec[p].address] = p

Removed(c) == call[c].op = "delete" /\ call[c].actual # NoPeer

\* delete call c has removed the peer's record from the store
Unstored(c) == Removed(c) /\ call[c].pc \in {"disc_sess", "disc_chan", "del_resump"}

\* C15: once delete has removed peer p, no step of a pairing or discovery that
\* was in flight puts a peer of p's address back into the set (get stays
\* undefined) or a record of that address back into the store
C15_DeletedStaysDeleted ==
    [][\A c \in Calls :
          LET a == call[c].addr IN
          /\ (Removed(c) /\ loaded /\ Get(a) = NoPeer) =>
                /\ Get(a)' = NoPeer
                /\ \A p \in peers' \ peers : peerRec'[p].address # a
          /\ (Unstored(c) /\ store[a] = Absent) => store'[a] = Absent]_vars

\* C16: disconnect of a peer that is in the set leaves, at every one of its
\* steps, the peer's record in the set, the index and the store as they are;
\* when it returns, no session and no channel of the peer's address is left
C16_DisconnectKeepsPeer ==
    [][\A c \in Calls :
          LET a == call'[c].addr IN
          (call'[c].op = "disconnect" /\ call'[c] # call[c]) =>
             /\ UNCHANGED <<peers, peersByAddress, peerRec, store>>
             /\ (call[c].pc = "disc_chan" /\ call'[c].pc = "done" /\ call'[c].res.kind = "ok") =>
                   /\ ~sessions'[a]
                   /\ channels'[a] = NoCh
                   /\ peersByAddress'[a] # NoPeer
                   /\ peersByAddress'[a] \in peers']_vars

\* a connect has established a session and a channel, then disconnect of that
\* peer has returned: the peer is still there, its connection is gone
C16_Witness ==
    \E c, d \in Calls :
       /\ call[d].op = "connect" /\ call[d].res.kind = "ok" /\ call[d].res.ch.to # Seeded
       /\ call[c].op = "disconnect" /\ call[c].pc = "done" /\ call[c].res.kind = "ok"
       /\ log[<<c, "main">>] = <<"sessRemove", "chanRemove">>
       /\ Get(call[c].addr) # NoPeer
       /\ store[call[c].addr] # Absent
       /\ ~sessions[call[c].addr] /\ channels[call[c].addr] = NoCh

\* C17: delete of a peer or address that is not in the set is over in one
\* step that returns normally and changes nothing: not the set, the index,
\* the peer records, the store, the sessions, the channels or the resumption
\* records; no `deleted` observer runs and no collaborator is called
C17_DeleteUnknownIsNoOp ==
    [][\A c \in Calls :
          (call[c].pc = "idle" /\ call'[c].op = "delete"
              /\ peersByAddress[call'[c].addr] = NoPeer) =>
             /\ UNCHANGED <<peers, peersByAddress, peerRec, store, channels, sessions,
                            resumption, seen, log>>
             /\ call'[c].pc = "done"
             /\ call'[c].res = Ok(NoCh)]_vars

\* delete of an address that is not in the set has returned, while a session,
\* a channel and a resumption record of that address exist
C17_Witness ==
    \E c \in Calls :
       /\ call[c].op = "delete" /\ call[c].pc = "done" /\ call[c].actual = NoPeer
       /\ Get(call[c].addr) = NoPeer
       /\ sessions[call[c].addr] /\ channels[call[c].addr] # NoCh
       /\ resumption[call[c].addr]

\* C18: at the step in which a pairing whose session was not resumed clears
\* the cache entry of address a, no client a connect call has returned for a
\* is left with a cache object that holds data collected before
C18_NotResumedClearsCache ==
    [][\A a \in Addrs :
          (nodeCachedData[a] # NoCache /\ nodeCachedData'[a] = NoCache) =>
             \A c \in Calls :
                (call'[c].op = "connect" /\ call'[c].pc = "done" /\ call'[c].addr = a
                    /\ call'[c].cache # NoCache) =>
                   ~cacheData'[call'[c].cache]]_vars

\* the step in which #resume of connect call c catches error res.err
ResumeFails(c) ==
    /\ call[c].pc \notin {"resume_fail", "done"}
    /\ call'[c].op = "connect"
    /\ call'[c].pc \in {"resume_fail", "done"}
    /\ call'[c].res.kind = "err"
    /\ IsDiscoveryError(call'[c].res.err) \/ IsNoResponseTimeout(call'[c].res.err)

\* the step in which connect call c throws an error to its caller
ConnectThrows(c) ==
    /\ call[c].pc # "done" /\ call'[c].pc = "done"
    /\ call'[c].op = "connect"
    /\ call'[c].res.kind = "err"

\* C19 as stated: when connect throws a discovery error or a no-response
\* timeout, no session of that peer is left
C19_ResumeFailureRemovesSessions ==
    [][\A c \in Calls :
          (ConnectThrows(c) /\ (IsDiscoveryError(call'[c].res.err)
                                   \/ IsNoResponseTimeout(call'[c].res.err))) =>
             ~sessions'[call'[c].addr]]_vars

\* C19 amended: when resume fails with a discovery error or a no-response
\* timeout and the peer is in the set, the error is held back until the
\* sessions of the peer are removed, and then that same error is thrown; for
\* an address that is not in the set the error is thrown at once, with no
\* removal of sessions by #resume
C19_KnownPeerSessionsRemoved ==
    [][\A c \in Calls :
          LET a == call'[c].addr IN
          /\ ResumeFails(c) =>
                IF peersByAddress[a] # NoPeer
                THEN call'[c].pc = "resume_fail"
                ELSE call'[c].pc = "done"
          /\ (call[c].pc = "resume_fail" /\ ConnectThrows(c)) =>
                /\ ~sessions'[a]
                /\ call'[c].res = call[c].res]_vars

\* a connect to a peer of the set that had a session has thrown the discovery
\* error its resume failed with, after the sessions were removed
C19_Witness ==
    \E c \in Calls :
       /\ call[c].op = "connect" /\ call[c].pc = "done"
       /\ call[c].res = Err("Discovery")
       /\ Count(log[<<c, "main">>], "sessRemove") = 1
       /\ Count(log[<<c, "main">>], "open") = 0
       /\ Has(call[c].addr)
       /\ ~sessions[call[c].addr]

\* C20: once the status of an AsyncConstruction has left Initializing, no
\* later event (a cancel, the completion or the failure of the initializer,
\* any other call) changes it
C20_StatusTerminalOnce ==
    [][status # "Initializing" => status' = status]_constructionVars

\* the i-th then() call was made before start: it waits on a placeholder
AwaitedBeforeStart(i) == awaiters[i] \in 1..MaxAwaiters

\* C21: once the initializer given to start has completed (ready), every
\* then() call made before start has been settled: fulfilled when the
\* initializer succeeded, rejected when it failed
C21_EarlyAwaitersSettled ==
    (started /\ ready) =>
       \A i \in 1..Len(awaiters) :
          AwaitedBeforeStart(i) =>
             Awaited(i) = (IF error = "none" THEN "fulfilled" ELSE "rejected")

\* C22: once the initializer has failed (thrown inside start or rejected
\* later), a then() call on the construction is rejected with that failure;
\* it is never fulfilled with the target
C22_FailedConstructionRejects ==
    error # "none" =>
       \A i \in 1..Len(awaiters) :
          ~AwaitedBeforeStart(i) => Awaited(i) = "rejected"

\* a step of assert(): it reports in `ret` and changes nothing else
AssertStep ==
    /\ ret'.op = "assert"
    /\ UNCHANGED <<started, ready, canceled, status, error>>

\* C23, as stated: assert() throws UninitializedDependency whenever
\* initialization has not completed or has been cancelled, throws
\* IncapacitatedDependency whenever the initializer has failed, and returns
\* normally only after a successful, never cancelled initialization
C23_AssertTaxonomy ==
    [][AssertStep =>
         /\ (~ready \/ canceled) => ret'.thrown = "UninitializedDependency"
         /\ error # "none" => ret'.thrown = "IncapacitatedDependency"
         /\ ret'.thrown = "none" => (ready /\ error = "none" /\ ~canceled)]_vars

\* C23, amended: a failure of the initializer comes first
\* (IncapacitatedDependency, cancelled or not); without a failure assert()
\* throws UninitializedDependency while initialization has not completed or
\* after a cancel took effect; it returns normally exactly when
\* initialization completed without failure and no cancel took effect
C23_AssertFailureFirst ==
    [][AssertStep =>
         /\ error # "none" => ret'.thrown = "IncapacitatedDependency"
         /\ (error = "none" /\ (~ready \/ canceled)) =>
               ret'.thrown = "UninitializedDependency"
         /\ ret'.thrown = "none" <=> (ready /\ error = "none" /\ ~canceled)]_vars

\* assert() refused a construction that completed after it was cancelled
C23_Witness ==
    /\ ret.op = "assert"
    /\ ready /\ canceled /\ error = "none"
    /\ ret.thrown = "UninitializedDependency"

\* C24: a start() after the first one (the first given at creation or by
\* start, successful, pending or thrown) raises an Implementation error,
\* runs no initializer and leaves ready, error and status as they are
C24_SecondStartRefused ==
    [][(started /\ ret'.op = "start" /\ ret' # ret) =>
          /\ ret'.thrown = "Implementation"
          /\ UNCHANGED <<started, ready, error, status, promise, settled, chained>>]_vars

\* a second start() was refused after the first initializer threw
C24_Witness ==
    /\ ret = [op |-> "start", thrown |-> "Implementation"]
    /\ error = "e" /\ status = "Incapacitated"

\* a step of cancel(): it reports in `ret`; no promise settles in it
CancelStep ==
    /\ ret'.op = "cancel"
    /\ settled' = settled

\* C25: cancel() leaves ready, error and status unchanged without a cancel
\* hook, when the construction is ready or when it is already cancelled;
\* with a hook and before ready it sets status to Destroyed and calls the
\* hook; over all cancel calls the hook is called at most once
C25_CancelFrame ==
    /\ [](hookCalls <= 1)
    /\ [][CancelStep =>
            IF ~cancelHook \/ ready \/ canceled
            THEN UNCHANGED <<ready, error, status, canceled, hookCalls>>
            ELSE /\ status' = "Destroyed"
                 /\ hookCalls' = hookCalls + 1
                 /\ UNCHANGED <<ready, error>>]_vars

\* a second cancel() of a cancelled, still pending construction was a no-op
C25_Witness ==
    /\ ret.op = "cancel"
    /\ hookCalls = 1 /\ canceled /\ status = "Destroyed"
    /\ started /\ ~ready

\* the objects a and b hold the same (fabricIndex, nodeId)
SameAddress(a, b) ==
    /\ objects[a].fabricIndex = objects[b].fabricIndex
    /\ objects[a].nodeId = objects[b].nodeId

\* C26: whatever calls were made, two addresses with equal (fabricIndex,
\* nodeId) that have been interned got the same object, and interning the
\* object an interning call returned gives that object again
C26_InterningCanonical ==
    \A a, b \in 1..Len(objects) :
       /\ (canonical[a] # 0 /\ canonical[b] # 0 /\ SameAddress(a, b)) =>
             canonical[a] = canonical[b]
       /\ (canonical[a] # 0 /\ canonical[canonical[a]] # 0) =>
             canonical[canonical[a]] = canonical[a]

\* the part p holds the number n: its store records n
Holds(p, n) == n # 0 /\ storeNumber[p] = n

\* C27: no endpoint number is held by two parts with different ids, and no
\* assignNumber has returned normally for a part whose number another part
\* holds (it fails with IdentityConflict)
C27_NumbersUnique ==
    /\ \A p, q \in Parts : \A n \in 2..NumberSpace :
          (Holds(p, n) /\ Holds(q, n)) => p = q
    /\ \A p \in Parts :
          (assign.part = p /\ \E q \in Parts \ {p} : Holds(q, partNumber[p]))
             => assign.thrown # "none"

\* the connect call c, which registered a discovery, leaves its anyPromise
\* (the discovery has ended by a channel or by a failure)
DiscoveryEnds(c) ==
    /\ call[c].pc = "any" /\ call[c].owner
    /\ call'[c].pc # "any"

\* C28: when the discovery a connect call registered ends by a terminal
\* result, no RunningDiscovery entry of that discovery is left for the
\* address, and the call removes no entry that a later discovery of the same
\* address has registered
C28_OwnEntryRemovedOnly ==
    [][\A c \in Calls :
         DiscoveryEnds(c) =>
            LET a == call[c].addr IN
            /\ running'[a].owner # c
            /\ running[a].owner # c => running'[a] = running[a]]_vars

\* C29: when close() has returned, no address has a RunningDiscovery entry
C29_CloseLeavesNoDiscovery ==
    [][Closes => \A a \in Addrs : running'[a] = NoEntry]_vars

\* C30: a polling timer is running only while the discovery that created it
\* is the RunningDiscovery entry of its address
C30_TimerOnlyOfRunningDiscovery ==
    \A o \in Calls :
       timerOn[o] => running[call[o].addr].owner = o

(* ---------------------------------- C31 -------------------------------- *)
\* a polling attempt of discovery o returns to the timer callback
PollReturns(o) ==
    /\ pairSt[<<o, "poll">>].st # "idle"
    /\ pairSt'[<<o, "poll">>].st = "idle"

\* the error #pair throws in the step of task t (it closes the exchange
\* first when CASE has failed)
PairThrows(t) ==
    LET n == Len(log[t]) + 1
    IN  IF log'[t][n] = "exchangeClose" THEN log'[t][n + 1] ELSE log'[t][n]

\* what the polling callback does when it settles the discovery o
PollCleanup(o) ==
    LET a == call[o].addr IN
    /\ ~timerOn'[o]
    /\ running'[a] = NoEntry
    /\ Count(log'[<<o, "poll">>], "cancelScan") = Count(log[<<o, "poll">>], "cancelScan") + 1

\* C31: in a Full discovery with a cached address, a polling attempt that
\* reconnects while its timer is running stops the timer, cancels the mDNS
\* discovery, removes the RunningDiscovery entry, and the connect call
\* resolves with that channel; one that fails with an unexpected error does
\* the same cleanup and the connect call is rejected; one that gets no
\* response leaves the discovery as it is
C31_PollingSettlesDiscovery ==
    [][\A o \in Calls :
         /\ (PollReturns(o) /\ timerOn[o]) =>
               IF pairSt[<<o, "poll">>].st = "store"
               THEN PollCleanup(o) /\ pollPromise'[o] = pairSt[<<o, "poll">>].res
               ELSE IF ~IsNoResponseTimeout(PairThrows(<<o, "poll">>))
               THEN PollCleanup(o) /\ pollPromise'[o].kind = "err"
               ELSE UNCHANGED <<running, timerOn, pollPromise, mdns, anySt>>
         /\ (At(o, "connect", "any") /\ call'[o].pc # "any") =>
               /\ pollPromise[o].kind = "ok" => call'[o].res = pollPromise[o]
               /\ pollPromise[o].kind = "err" => call'[o].res.kind = "err"]_vars

(* ---------------------------------- C32 -------------------------------- *)
\* the step is a call of the reactor
ReactorCalled == handled' # NotCalled

\* the reactor's call left the PeerSet as it was and started no scan
ReactorIgnores ==
    UNCHANGED <<peerVars, mgrVars, scanVars, discVars, taskVars, retr, queueClosed,
                cacheVars>>

\* the reactor's call inserted the placeholder of address a
PlaceholderInserted(a) ==
    /\ running'[a] = [type |-> RetransmissionDiscovery, owner |-> ByReactor]
    /\ \A b \in Addrs \ {a} : running'[b] = running[b] /\ retr'[b] = retr[b]

\* no step but a call of the reactor makes a RetransmissionDiscovery entry
OnlyReactorInserts ==
    \A a \in Addrs :
       (running'[a].type = RetransmissionDiscovery /\ running'[a] # running[a])
          => ReactorCalled

C33_PlaceholderHasScan ==
    \A a \in Addrs :
       running[a].type = RetransmissionDiscovery => retr[a] \in {"scan", "cancelled"}

(* ---------------------------------- C34 -------------------------------- *)
\* the unsecure sessions the pairings of task t have created and not destroyed
UnsecureAlive(t) == Count(log[t], "unsecure") - Count(log[t], "destroyUnsecure")

\* C34: a pairing attempt releases what it acquired on every exit path: the
\* exchange is closed before a CASE failure propagates, the unsecure session
\* is destroyed before the channel is registered, and once an attempt is over
\* (failed or not) no unsecure session it created is alive
C34_PairingReleasesUnsecureSession ==
    \A t \in Tasks :
       /\ pairSt[t].st # "case" => UnsecureAlive(t) = 0
       /\ Count(log[t], "setChannel") <= Count(log[t], "destroyUnsecure")
       /\ pairSt[t].st # "case" =>
             Count(log[t], "exchange") =
                Count(log[t], "exchangeClose") + Count(log[t], "destroyUnsecure")

(* ---------------------------------- C35 -------------------------------- *)
\* C35: a no-response timeout raised at any step of a pairing attempt
\* (openChannel, the exchange, CASE) leaves #pair as a
\* PairRetransmissionLimitReached error, and errors of other kinds leave it
\* unchanged: no pairing throws a bare NoResponseTimeout to its caller
C35_NoResponseIsConverted ==
    \A t \in Tasks : Count(log[t], "NoResponseTimeout") = 0

(* ---------------------------------- C36 -------------------------------- *)
\* the reconnect closure of client c is called
ReconnectCalled(c) == At(c, "connect", "done") /\ call'[c].op = "reconnect"

\* the reconnect closure of client c returns or throws
ReconnectEnds(c) ==
    /\ call[c].op = "reconnect"
    /\ call[c].pc # "done"
    /\ call'[c].pc = "done"

\* what the closure has done when it ends: the channels were removed once, at
\* most one reconnect was made and no scan was started
OneDirectReconnect(c) ==
    LET l == log'[<<c, "main">>] IN
    /\ Count(l, "chanRemove") = 1
    /\ Count(l, "open") <= 1
    /\ Count(l, "scan") = 0
    /\ Count(l, "register") = 0

\* the closure fails fast: RetransmissionLimitReached and nothing changes
FailsFast(c) ==
    /\ call'[c].pc = "done"
    /\ call'[c].res = Err("RetransmissionLimitReached")
    /\ UNCHANGED <<peerVars, mgrVars, scanVars, discVars, mdns, pairSt, anySt, retr,
                   queueClosed, cacheVars, log>>

\* the closure gives up: sessions removed, no channel left
GivesUp(c) ==
    /\ call'[c].res = Err("RetransmissionLimitReached")
    /\ ~sessions'[call[c].addr]
    /\ channels'[call[c].addr] = NoCh

\* the closure returns the channel its reconnect has registered
ReturnsNewChannel(c) ==
    /\ call'[c].res.ch = channels'[call[c].addr]
    /\ call'[c].res.ch.to = pairSt[<<c, "main">>].to
    /\ Count(log'[<<c, "main">>], "setChannel") = 1

\* C36 (as stated): the reconnect closure fails fast with no channel;
\* otherwise it removes the channels and makes one direct reconnect to the
\* known address, with no scan; with no known address or no response it
\* removes the sessions and raises RetransmissionLimitReached with no channel
\* left, and otherwise it returns the newly registered channel
C36_ReconnectClosure ==
    [][\A c \in Calls :
          /\ ReconnectCalled(c) =>
                IF channels[call[c].addr] = NoCh THEN FailsFast(c)
                ELSE call'[c].pc = "rc_chan"
          /\ ReconnectEnds(c) =>
                /\ OneDirectReconnect(c)
                /\ IF call'[c].res.kind = "ok" THEN ReturnsNewChannel(c) ELSE GivesUp(c)]_vars

\* C36 (amended): as above, and when the reconnect fails with an error that
\* is not a no-response timeout the closure throws that error, with the
\* channels removed and the sessions not removed by it
C36_ReconnectClosurePropagates ==
    [][\A c \in Calls :
          /\ ReconnectCalled(c) =>
                IF channels[call[c].addr] = NoCh THEN FailsFast(c)
                ELSE call'[c].pc = "rc_chan"
          /\ ReconnectEnds(c) =>
                /\ OneDirectReconnect(c)
                /\ IF call'[c].res.kind = "ok" THEN ReturnsNewChannel(c)
                   ELSE IF call[c].pc = "rc_pair" /\ PairThrows(<<c, "main">>) = "Other"
                   THEN /\ call'[c].res = Err("Other")
                        /\ channels'[call[c].addr] = NoCh
                        /\ sessions' = sessions
                   ELSE GivesUp(c)]_vars

\* a closure has reconnected and returned the new channel
C36_Witness ==
    \E c \in Calls :
       /\ At(c, "reconnect", "done")
       /\ call[c].res.kind = "ok"
       /\ Count(log[<<c, "main">>], "chanRemove") = 1

(* ------------------------------- C37 ----------------------------------- *)
\* The even operational addresses stand for IPv6 literals ("::1"), the odd
\* ones for IPv4 literals ("127.0.0.1").
Ipv6Literals == {x \in OpAddrs : x % 2 = 0}

\* #pair is called in task t in this step
PairStarts(t) == pairSt[t].st = "idle" /\ pairSt'[t].st # "idle"

\* the last entry of a log is none of the given ones
LastIsNoneOf(s, es) == s = << >> \/ s[Len(s)] \notin es

\* C37: a pairing asks for the UDP interface bound to "::" when the address
\* is an IPv6 literal and for the one bound to "0.0.0.0" otherwise; with the
\* interface it goes on to open the channel through it, and without it it
\* fails with PairRetransmissionLimitReached and has opened no channel,
\* created no unsecure session and initiated no exchange.
C37_InterfaceByFamily ==
    [][\A t \in Tasks :
          /\ PairStarts(t) =>
                LET wanted == IF pairSt'[t].to \in Ipv6Literals THEN "::" ELSE "0.0.0.0"
                IN  IF wanted \in netInterfaces
                    THEN /\ pairSt'[t].st = "open"
                         /\ pairSt'[t].via = wanted
                    ELSE /\ pairSt'[t].st = "thrown"
                         /\ LastIsNoneOf(log'[t], {"open"})
          /\ (pairSt[t].st = "thrown" /\ pairSt'[t] # pairSt[t]) =>
                /\ PairThrows(t) = "PairRetransmissionLimitReached"
                /\ LastIsNoneOf(log[t], {"open", "unsecure", "exchange", "case"})
                /\ pairSt'[t].st = "idle"]_vars

\* a connect to an IPv6 address on a node with the IPv4 interface only has
\* failed its direct pairing without opening a channel
C37_Witness ==
    \E c \in Calls :
        /\ netInterfaces = {"0.0.0.0"}
        /\ call[c].opAddr \in Ipv6Literals
        /\ Count(log[<<c, "main">>], "PairRetransmissionLimitReached") = 1
        /\ Count(log[<<c, "main">>], "open") = 0

(* ------------------------------- C38 ----------------------------------- *)
\* C38: every endpoint number assignNumber allocates lies in 2..0xfffe: 0
\* and 1 are never allocated and, the next number rolling over modulo
\* 0xffff, neither is 0xffff or a larger number.
C38_AllocatedInRange ==
    \A n \in allocatedNumbers : 2 <= n /\ n <= NumberSpace - 1

(* ------------------------------- C39 ----------------------------------- *)
\* the connect call c waits for its discovery, whose mDNS producer has
\* failed and whose polling producer can no longer settle: the timer is
\* stopped, no polling attempt is under way and the polling promise is
\* pending
NoProducerLeft(c) ==
    /\ At(c, "connect", "any")
    /\ call[c].poll = c
    /\ mdns[c].st = "done"
    /\ anySt[c].rejected = 1
    /\ ~timerOn[c]
    /\ pairSt[<<c, "poll">>].st = "idle"
    /\ pollPromise[c].kind = "pending"

\* C39: a connect call does not stay pending once none of its discovery
\* producers can still deliver: in a Full discovery with a cached address,
\* once the mDNS producer has stopped the polling timer and then failed, the
\* call is rejected and does not wait on the polling producer.
C39_ConnectNotStranded ==
    \A c \in Calls : NoProducerLeft(c) => anySt[c].res.kind # "pending"

(* ------------------------------- C40 ----------------------------------- *)
\* C40: a scan request survives the adapter's power changes: while the user
\* has called startScanning() and not stopScanning() since, every change of
\* the adapter to poweredOn starts scanning, whatever states it went through
\* in between.
C40_ScanRequestSurvives ==
    [][(scanWanted /\ nobleState # "poweredOn" /\ nobleState' = "poweredOn")
           => nobleCall' = "start"]_vars

====
